---- MODULE Spec2Model ----
(***************************************************************************)
(* GenZ-Mock: the admin data manager (AdminDataManager), the Firebase      *)
(* mirror (FirebaseSync) and the PDF question extractor                    *)
(* (PDFQuestionExtractor), as state machines.                              *)
(*                                                                         *)
(* JavaScript values: a missing property reads as Undef, JSON null is      *)
(* Null; the number 0 stands for a missing or zero question_number (both   *)
(* are falsy to ||).  Ids made by generateId are the integers 1, 2, ...;   *)
(* the demo test 'polity_test_1' is id 0 and the demo questions 'q1',      *)
(* 'q2', ... are the ids -1, -2, ...                                       *)
(***************************************************************************)
EXTENDS Integers, Sequences, FiniteSets, TLC

VARIABLES
    mockTests,      \* AdminDataManager.mockTests (array of test records)
    questions,      \* AdminDataManager.questions (array of question records)
    accessKeys,     \* AdminDataManager.accessKeys (array of key records)
    nextId,         \* the number of the next id generateId hands out
    firebaseLoaded, \* window.FirebaseSync is defined
    net,            \* requests FirebaseSync has issued and the backend has not answered
    ret,            \* the last operation, its arguments and its return value
    pc,             \* where the unawaited initFirebaseSync of the constructor stands
    fbKeys,         \* the backend's /access_keys node (children in key order)
    fbTests,        \* the backend's /mock_tests node
    fbQuestions,    \* the backend's /questions node, one child node per test
    fbResults,      \* the backend's /results node
    fbNotifications,\* the backend's /notifications node
    now,            \* the clock (new Date())
    text,           \* the text extracted from the PDF, as handed to parseQuestions
    blocks,         \* the question blocks the text was written from
    textLines,      \* the lines the text was written from
    pdfQuestions,   \* PDFQuestionExtractor.questions
    apiKey,         \* AIQuestionExtractor.apiKey
    isProcessing,   \* AIQuestionExtractor.isProcessing
    pending,        \* calls of the AIQuestionExtractor that await the endpoint
    definition      \* which of the two definitions of AIQuestionExtractor is loaded

adminVars == <<mockTests, questions, accessKeys, nextId, firebaseLoaded, net>>
mirrorVars == <<pc, fbKeys, fbTests, fbQuestions>>
readVars == <<fbResults, fbNotifications, now>>
extractorVars == <<text, blocks, textLines, pdfQuestions, apiKey, isProcessing, pending, definition>>

(***************************************************************************)
(* Bounds of the model.                                                    *)
(***************************************************************************)
MaxIds == 3         \* ids generateId hands out in one run
MaxQuestions == 3   \* question records held locally
MaxBatch == 2       \* questions in one addQuestionsToTest call
DemoQuestions == 2  \* questions of the demo test (the source lists 31)
NumDefaultKeys == 1 \* default testing keys (the source lists 5)
MaxKeys == 1        \* keys createKey makes in one run
MaxStoredKeys == 2  \* key records the backend holds
MaxResults == 3     \* results saved in one run
MaxScore == 2       \* the largest correct count and the longest time of a result
MaxNotifications == 2 \* notification ids
MaxTime == 2        \* the last instant of the clock
MaxBlocks == 2      \* question blocks of a text
MaxNet == 2         \* requests in flight when the manager issues one more
MaxLines == 3       \* lines of a text written line by line
MaxPending == 2     \* calls of the AIQuestionExtractor that await the endpoint
MaxStoredTests == 2 \* test records the backend holds
MaxRaceTests == 2    \* tests created while initFirebaseSync runs
MaxAdded == 1        \* questions added while earlier saves are in flight
MaxSaved == 2        \* records of a list handed to saveQuestions

(***************************************************************************)
(* JavaScript values.                                                      *)
(***************************************************************************)
Undef == "<undefined>"
Null == "<null>"
Num0 == "#0"        \* the number 0 where a string is expected

Truthy(v) == v \notin {Undef, Null, "", Num0}
Or(a, b) == IF Truthy(a) THEN a ELSE b

Get(q, f) == IF f \in DOMAIN q THEN q[f] ELSE Undef
GetNum(q, f) == IF f \in DOMAIN q THEN q[f] ELSE 0
OrNum(a, b) == IF a # 0 THEN a ELSE b

\* { ...q, ...u }
Merge(q, u) == [f \in DOMAIN q \cup DOMAIN u |-> IF f \in DOMAIN u THEN u[f] ELSE q[f]]

\* the content properties of a question record, as exportTest lists them
ExportFields ==
    {"question_text_en", "question_text_hi",
     "option_a_en", "option_b_en", "option_c_en", "option_d_en",
     "option_a_hi", "option_b_hi", "option_c_hi", "option_d_hi",
     "correct_option", "explanation_en", "explanation_hi", "difficulty"}

DemoTestId == 0
DemoQuestionId(i) == 0 - i

(***************************************************************************)
(* FirebaseSync calls made by the manager: each is issued only when        *)
(* window.FirebaseSync is defined, and is not awaited.                     *)
(***************************************************************************)
SaveTestReq(t) == [op |-> "saveTest", test |-> t]
SaveQuestionsReq(testId, qs) == [op |-> "saveQuestions", testId |-> testId, questions |-> qs]
DeleteTestReq(testId) == [op |-> "deleteTest", testId |-> testId, step |-> 1]
SaveKeyReq(k) == [op |-> "saveKey", key |-> k]
DeleteKeyReq(keyId) == [op |-> "deleteKey", keyId |-> keyId]

Send(reqs) == IF firebaseLoaded THEN net \o reqs ELSE net

(***************************************************************************)
(* Queries.                                                                *)
(***************************************************************************)
\* seq.findIndex(x => x[f] === v), 1-based, 0 standing for -1
FindIndex(seq, f, v) ==
    LET P(x) == f \in DOMAIN x /\ x[f] = v
    IN  IF \E i \in 1..Len(seq) : P(seq[i])
        THEN CHOOSE i \in 1..Len(seq) : P(seq[i]) /\ \A j \in 1..(i - 1) : ~P(seq[j])
        ELSE 0

Splice(seq, i) == SubSeq(seq, 1, i - 1) \o SubSeq(seq, i + 1, Len(seq))

getTestIndex(tests, id) == FindIndex(tests, "id", id)
getTestById(id) == getTestIndex(mockTests, id)
QuestionsOf(qs, testId) == SelectSeq(qs, LAMBDA q : q.test_id = testId)
getQuestionsByTestId(testId) == QuestionsOf(questions, testId)

\* updateTest(id, updates): the new test array and the mirror call it makes
updateTestArray(tests, id, updates) ==
    LET index == getTestIndex(tests, id)
    IN  IF index # 0 THEN [tests EXCEPT ![index] = Merge(tests[index], updates)] ELSE tests
updateTestReqs(tests, id, updates) ==
    LET index == getTestIndex(tests, id)
    IN  IF index # 0 THEN <<SaveTestReq(Merge(tests[index], updates))>> ELSE <<>>

(***************************************************************************)
(* initDemoTest: one test and its questions, in their own (older) schema.  *)
(***************************************************************************)
demoTest == [id |-> DemoTestId, total_questions |-> DemoQuestions]
demoQuestion(i) ==
    [id |-> DemoQuestionId(i), test_id |-> DemoTestId, question_en |-> "Demo",
     options |-> <<"A", "B", "C", "D">>,
     correct_option |-> IF i % 2 = 1 THEN "#1" ELSE Num0,
     explanation |-> "E"]
demoQuestions == [i \in 1..DemoQuestions |-> demoQuestion(i)]

(***************************************************************************)
(* createTest                                                              *)
(***************************************************************************)
newTest(id, testData) ==
    [id |-> id,
     total_questions |-> OrNum(GetNum(testData, "questions"), 0)]

createTest(testData) ==
    /\ nextId <= MaxIds
    /\ LET test == newTest(nextId, testData)
       IN  /\ mockTests' = <<test>> \o mockTests
           /\ net' = Send(<<SaveTestReq(test)>>)
           /\ ret' = [op |-> "createTest", val |-> test.id]
    /\ nextId' = nextId + 1
    /\ UNCHANGED <<questions, accessKeys, firebaseLoaded>>

(***************************************************************************)
(* updateTest                                                              *)
(***************************************************************************)
updateTest(id, updates) ==
    /\ mockTests' = updateTestArray(mockTests, id, updates)
    /\ net' = Send(updateTestReqs(mockTests, id, updates))
    /\ ret' = [op |-> "updateTest", id |-> id, val |-> (getTestById(id) # 0)]
    /\ UNCHANGED <<questions, accessKeys, nextId, firebaseLoaded>>

(***************************************************************************)
(* deleteTest                                                              *)
(***************************************************************************)
deleteTestQuestions_keepAll(qs, id) == qs
deleteTestQuestions(qs, id) == SelectSeq(qs, LAMBDA q : q.test_id # id)

deleteTest(id) ==
    LET index == getTestById(id)
    IN  /\ IF index # 0
           THEN /\ mockTests' = Splice(mockTests, index)
                /\ questions' = deleteTestQuestions(questions, id)
                /\ net' = Send(<<DeleteTestReq(id)>>)
           ELSE UNCHANGED <<mockTests, questions, net>>
        /\ ret' = [op |-> "deleteTest", id |-> id, val |-> (index # 0),
                   before |-> [mockTests |-> mockTests, questions |-> questions]]
        /\ UNCHANGED <<accessKeys, nextId, firebaseLoaded>>

(***************************************************************************)
(* addQuestionsToTest                                                      *)
(***************************************************************************)
\* the record built for questionsData[i] (i is 1-based here; the code's i + 1)
newQuestion(id, testId, q, i) ==
    [id |-> id,
     test_id |-> testId,
     question_number |-> OrNum(GetNum(q, "question_number"), i),
     question_text_en |-> Or(Get(q, "question_text_en"), Or(Get(q, "question_text"), Or(Get(q, "question"), ""))),
     question_text_hi |-> Or(Get(q, "question_text_hi"), ""),
     option_a_en |-> Or(Get(q, "option_a_en"), Or(Get(q, "option_a"), "")),
     option_b_en |-> Or(Get(q, "option_b_en"), Or(Get(q, "option_b"), "")),
     option_c_en |-> Or(Get(q, "option_c_en"), Or(Get(q, "option_c"), "")),
     option_d_en |-> Or(Get(q, "option_d_en"), Or(Get(q, "option_d"), "")),
     option_a_hi |-> Or(Get(q, "option_a_hi"), ""),
     option_b_hi |-> Or(Get(q, "option_b_hi"), ""),
     option_c_hi |-> Or(Get(q, "option_c_hi"), ""),
     option_d_hi |-> Or(Get(q, "option_d_hi"), ""),
     correct_option |-> Or(Get(q, "correct_option"), "a"),
     explanation_en |-> Or(Get(q, "explanation_en"), Or(Get(q, "explanation"), "")),
     explanation_hi |-> Or(Get(q, "explanation_hi"), ""),
     difficulty |-> Or(Get(q, "difficulty"), "moderate")]

\* questionsData.map(...): ids are generated in order, starting at firstId
newQuestions(firstId, testId, questionsData) ==
    [i \in 1..Len(questionsData) |-> newQuestion(firstId + i - 1, testId, questionsData[i], i)]

\* the effect of addQuestionsToTest on (tests, questions), and its mirror calls
addedQuestions(qs, firstId, testId, questionsData) ==
    qs \o newQuestions(firstId, testId, questionsData)
addedCount(tests, qs, firstId, testId, questionsData) ==
    IF getTestIndex(tests, testId) # 0
    THEN updateTestArray(tests, testId,
            [total_questions |-> Len(QuestionsOf(addedQuestions(qs, firstId, testId, questionsData), testId))])
    ELSE tests
addedReqs(tests, qs, firstId, testId, questionsData) ==
    LET qs2 == addedQuestions(qs, firstId, testId, questionsData)
    IN  (IF getTestIndex(tests, testId) # 0
         THEN updateTestReqs(tests, testId, [total_questions |-> Len(QuestionsOf(qs2, testId))])
         ELSE <<>>)
        \o <<SaveQuestionsReq(testId, QuestionsOf(qs2, testId))>>

addQuestionsToTest(testId, questionsData) ==
    /\ nextId + Len(questionsData) - 1 <= MaxIds
    /\ Len(questions) + Len(questionsData) <= MaxQuestions
    /\ questions' = addedQuestions(questions, nextId, testId, questionsData)
    /\ mockTests' = addedCount(mockTests, questions, nextId, testId, questionsData)
    /\ net' = Send(addedReqs(mockTests, questions, nextId, testId, questionsData))
    /\ nextId' = nextId + Len(questionsData)
    /\ ret' = [op |-> "addQuestionsToTest", testId |-> testId, val |-> Len(questionsData)]
    /\ UNCHANGED <<accessKeys, firebaseLoaded>>

(***************************************************************************)
(* createTest(testData) followed, when questionsData is not empty, by      *)
(* addQuestionsToTest(test.id, questionsData): the body shared by          *)
(* importTestWithQuestions and duplicateTest.                              *)
(***************************************************************************)
createTestWithQuestions(testData, questionsData, r) ==
    LET test == newTest(nextId, testData)
        tests1 == <<test>> \o mockTests
    IN  /\ nextId + Len(questionsData) <= MaxIds
        /\ Len(questions) + Len(questionsData) <= MaxQuestions
        /\ IF Len(questionsData) > 0
           THEN /\ questions' = addedQuestions(questions, nextId + 1, test.id, questionsData)
                /\ mockTests' = addedCount(tests1, questions, nextId + 1, test.id, questionsData)
                /\ net' = Send(<<SaveTestReq(test)>>
                               \o addedReqs(tests1, questions, nextId + 1, test.id, questionsData))
           ELSE /\ questions' = questions
                /\ mockTests' = tests1
                /\ net' = Send(<<SaveTestReq(test)>>)
        /\ nextId' = nextId + 1 + Len(questionsData)
        /\ ret' = Merge(r, [found |-> TRUE, val |-> test.id])
        /\ UNCHANGED <<accessKeys, firebaseLoaded>>

(***************************************************************************)
(* importTestWithQuestions.  importData.questions may be absent.           *)
(***************************************************************************)
importQuestions(importData) ==
    IF "questions" \in DOMAIN importData THEN importData.questions ELSE <<>>

importTestData(importData) ==
    [questions |-> OrNum(Len(importQuestions(importData)), 0)]

importTestWithQuestions(importData) ==
    createTestWithQuestions(importTestData(importData), importQuestions(importData),
                            [op |-> "importTestWithQuestions"])

(***************************************************************************)
(* duplicateTest                                                           *)
(***************************************************************************)
duplicateTestData(originalTest, originalQuestions) ==
    [questions |-> Len(originalQuestions)]

duplicateTest(testId) ==
    LET index == getTestById(testId)
    IN  IF index = 0
        THEN /\ ret' = [op |-> "duplicateTest", testId |-> testId, found |-> FALSE, val |-> Null]
             /\ UNCHANGED adminVars
        ELSE createTestWithQuestions(
                 duplicateTestData(mockTests[index], getQuestionsByTestId(testId)),
                 getQuestionsByTestId(testId),
                 [op |-> "duplicateTest", testId |-> testId])

(***************************************************************************)
(* exportTest, and JSON.parse of the string it returns.  JSON.stringify    *)
(* leaves out the properties whose value is undefined and keeps null.      *)
(***************************************************************************)
exportQuestion_unnumbered(q) ==
    [f \in ExportFields \cup {"question_number"} |->
        IF f = "question_number" THEN 0 ELSE Get(q, f)]
exportQuestion(q) ==
    [f \in ExportFields \cup {"question_number"} |->
        IF f = "question_number" THEN GetNum(q, f) ELSE Get(q, f)]

JsonObject(o) ==
    [f \in {g \in DOMAIN o : g = "question_number" \/ o[g] # Undef} |-> o[f]]

exportTest(testId) ==
    LET qs == getQuestionsByTestId(testId)
    IN  [questions |-> [i \in 1..Len(qs) |-> JsonObject(exportQuestion(qs[i]))],
         total_questions |-> Len(qs)]

\* importTestWithQuestions(JSON.parse(exportTest(testId))); exportTest returns
\* null for an unknown test and the import then throws on null.title_en
exportThenImport(testId) ==
    IF getTestById(testId) = 0
    THEN /\ ret' = [op |-> "exportThenImport", testId |-> testId, found |-> FALSE, val |-> Null]
         /\ UNCHANGED adminVars
    ELSE createTestWithQuestions(importTestData(exportTest(testId)),
                                 importQuestions(exportTest(testId)),
                                 [op |-> "exportThenImport", testId |-> testId])

(***************************************************************************)
(* addSingleQuestion                                                       *)
(***************************************************************************)
\* the record of addQuestionsToTest with nextNumber as the default number (and a
\* created_at timestamp, which the model leaves out with the other timestamps)
singleQuestion(id, testId, questionData, nextNumber) ==
    newQuestion(id, testId, questionData, nextNumber)

addSingleQuestion(testId, questionData) ==
    LET nextNumber == Len(getQuestionsByTestId(testId)) + 1
        question == singleQuestion(nextId, testId, questionData, nextNumber)
        qs2 == Append(questions, question)
        updates == [total_questions |-> Len(QuestionsOf(qs2, testId))]
    IN  /\ nextId <= MaxIds
        /\ Len(questions) + 1 <= MaxQuestions
        /\ questions' = qs2
        /\ mockTests' = updateTestArray(mockTests, testId, updates)
        /\ net' = Send(updateTestReqs(mockTests, testId, updates)
                       \o <<SaveQuestionsReq(testId, QuestionsOf(qs2, testId))>>)
        /\ nextId' = nextId + 1
        /\ ret' = [op |-> "addSingleQuestion", testId |-> testId, val |-> question.id]
        /\ UNCHANGED <<accessKeys, firebaseLoaded>>

(***************************************************************************)
(* updateQuestion                                                          *)
(***************************************************************************)
getQuestionIndex(qs, questionId) == FindIndex(qs, "id", questionId)

\* { ...q, ...updates, updated_at } (timestamps are left out)
updatedQuestion(q, updates) == Merge(q, updates)

updateQuestion(questionId, updates) ==
    LET index == getQuestionIndex(questions, questionId)
    IN  /\ IF index # 0
           THEN LET testId == questions[index].test_id
                    qs2 == [questions EXCEPT ![index] = updatedQuestion(questions[index], updates)]
                IN  /\ questions' = qs2
                    /\ net' = Send(<<SaveQuestionsReq(testId, QuestionsOf(qs2, testId))>>)
                    /\ ret' = [op |-> "updateQuestion", id |-> questionId, val |-> questionId]
           ELSE /\ UNCHANGED <<questions, net>>
                /\ ret' = [op |-> "updateQuestion", id |-> questionId, val |-> Null]
        /\ UNCHANGED <<mockTests, accessKeys, nextId, firebaseLoaded>>

(***************************************************************************)
(* deleteQuestion                                                          *)
(***************************************************************************)
\* remainingQuestions.forEach((q, i) => { q.question_number = i + 1 }): the
\* records are shared with this.questions, so the array itself is renumbered
renumbered_not(qs, testId) == qs
renumbered(qs, testId) ==
    [p \in 1..Len(qs) |->
        IF qs[p].test_id = testId
        THEN Merge(qs[p], [question_number |-> Cardinality({j \in 1..p : qs[j].test_id = testId})])
        ELSE qs[p]]

deleteQuestion(questionId) ==
    LET index == getQuestionIndex(questions, questionId)
    IN  /\ IF index # 0
           THEN LET testId == questions[index].test_id
                    qs2 == renumbered(Splice(questions, index), testId)
                    remainingQuestions == QuestionsOf(qs2, testId)
                    updates == [total_questions |-> Len(remainingQuestions)]
                IN  /\ questions' = qs2
                    /\ mockTests' = updateTestArray(mockTests, testId, updates)
                    /\ net' = Send(updateTestReqs(mockTests, testId, updates)
                                   \o <<SaveQuestionsReq(testId, remainingQuestions)>>)
                    /\ ret' = [op |-> "deleteQuestion", id |-> questionId, testId |-> testId, val |-> TRUE]
           ELSE /\ UNCHANGED <<questions, mockTests, net>>
                /\ ret' = [op |-> "deleteQuestion", id |-> questionId, testId |-> Null, val |-> FALSE]
        /\ UNCHANGED <<accessKeys, nextId, firebaseLoaded>>

(***************************************************************************)
(* Access keys.  A key record is [id, key, is_active]; the ids generateId  *)
(* hands out are 1, 2, ... and the default key 'key_GenZTesting<i>' is the *)
(* id DefaultKeyId(i).                                                     *)
(***************************************************************************)
defaultKeys ==
    SubSeq(<<"GenZTesting1", "GenZTesting2", "GenZTesting3", "GenZTesting4", "GenZTesting5">>,
           1, NumDefaultKeys)
DefaultKeyId(i) == 100 + i

defaultKey(i) == [id |-> DefaultKeyId(i), key |-> defaultKeys[i], is_active |-> TRUE]

\* the default keys whose code is not among the codes held before the call
missingDefaultKeys(keys) ==
    SelectSeq([i \in 1..Len(defaultKeys) |-> defaultKey(i)],
              LAMBDA k : \A j \in 1..Len(keys) : Get(keys[j], "key") # k.key)

initDefaultKeys(keys) == keys \o missingDefaultKeys(keys)
initDefaultKeysReqs(keys) ==
    LET added == missingDefaultKeys(keys)
    IN  [i \in 1..Len(added) |-> SaveKeyReq(added[i])]

\* generateKeyString: four groups of four characters of A-Z0-9, drawn at random
KeyStrings == {"AAAA-AAAA-AAAA-AAAA", "AAAA-AAAA-AAAA-AAAB"}

createKey(keyString) ==
    /\ nextId <= MaxIds
    /\ LET key == [id |-> nextId, key |-> keyString, is_active |-> TRUE]
       IN  /\ accessKeys' = <<key>> \o accessKeys
           /\ net' = Send(<<SaveKeyReq(key)>>)
           /\ ret' = [op |-> "createKey", val |-> key.id]
    /\ nextId' = nextId + 1
    /\ UNCHANGED <<mockTests, questions, firebaseLoaded>>

deleteKey(keyId) ==
    LET index == FindIndex(accessKeys, "id", keyId)
    IN  /\ IF index # 0
           THEN /\ accessKeys' = Splice(accessKeys, index)
                /\ net' = Send(<<DeleteKeyReq(keyId)>>)
           ELSE UNCHANGED <<accessKeys, net>>
        /\ ret' = [op |-> "deleteKey", id |-> keyId, val |-> (index # 0)]
        /\ UNCHANGED <<mockTests, questions, nextId, firebaseLoaded>>

(***************************************************************************)
(* The backend (Firebase Realtime Database over REST).  A node is the      *)
(* sequence of its children in key order, which is the order Object.values *)
(* lists them in; a child record carries its key as id.                    *)
(***************************************************************************)
Put(node, rec) ==
    SelectSeq(node, LAMBDA r : r.id < rec.id) \o <<rec>>
        \o SelectSeq(node, LAMBDA r : r.id > rec.id)
Remove(node, id) == SelectSeq(node, LAMBDA r : r.id # id)

\* saveQuestions: questionsObj[q.id || `q${idx + 1}`] = q
questionKey(q, i) == IF "id" \in DOMAIN q THEN q.id ELSE DemoQuestionId(i)
RECURSIVE questionsObj(_, _)
questionsObj(qs, n) ==
    IF n = 0 THEN <<>>
    ELSE Put(questionsObj(qs, n - 1), [id |-> questionKey(qs[n], n), q |-> qs[n]])
\* PUT of an empty object removes the node
PutQuestions(node, testId, qs) ==
    IF Len(qs) = 0 THEN Remove(node, testId)
    ELSE Put(node, [id |-> testId, children |-> questionsObj(qs, Len(qs))])

\* how the backend answers a request: it carries it out, it answers with an
\* error status (and an error body), or the fetch throws
Outcomes == {"ok", "status", "throws"}

\* a primitive string where an object is expected: every property is undefined
StringValue(str) == [string |-> str]
ErrorBody == <<StringValue("Permission denied")>>
\* Object.values of the string 'Permission denied': its characters
ErrorBodyChars ==
    [i \in 1..17 |-> StringValue(<<"P", "e", "r", "m", "i", "s", "s", "i", "o", "n", " ",
                                   "d", "e", "n", "i", "e", "d">>[i])]

\* response.json() then Object.values(data), [] when data is null or on a throw
Values(node, outcome) ==
    CASE outcome = "ok" -> node
      [] outcome = "status" -> ErrorBody
      [] outcome = "throws" -> <<>>

RECURSIVE Flatten(_, _)
Flatten(node, n) ==
    IF n = 0 THEN <<>>
    ELSE Flatten(node, n - 1)
             \o [i \in 1..Len(node[n].children) |-> node[n].children[i].q]

getAllQuestions(outcome) ==
    CASE outcome = "ok" -> Flatten(fbQuestions, Len(fbQuestions))
      [] outcome = "status" -> ErrorBodyChars
      [] outcome = "throws" -> <<>>

\* a request initFirebaseSync awaits
Awaited(r) == Merge(r, [awaited |-> TRUE])
IsAwaited(r, op) == r.op = op /\ "awaited" \in DOMAIN r

\* the backend answers the i-th request in flight
Deliver(i, outcome) ==
    LET r == net[i]
        ok == outcome = "ok"
    IN  /\ fbKeys' =
              IF ok /\ r.op = "saveKey" THEN Put(fbKeys, r.key)
              ELSE IF ok /\ r.op = "deleteKey" THEN Remove(fbKeys, r.keyId)
              ELSE fbKeys
        /\ fbTests' =
              IF ok /\ r.op = "saveTest" THEN Put(fbTests, r.test)
              ELSE IF ok /\ r.op = "deleteTest" /\ r.step = 1 THEN Remove(fbTests, r.testId)
              ELSE fbTests
        /\ fbQuestions' =
              IF ok /\ r.op = "saveQuestions" THEN PutQuestions(fbQuestions, r.testId, r.questions)
              ELSE IF ok /\ r.op = "deleteTest" /\ r.step = 2 THEN Remove(fbQuestions, r.testId)
              ELSE fbQuestions
        \* FirebaseSync.deleteTest awaits its first DELETE and then sends the second
        /\ net' =
              IF r.op = "deleteTest" /\ r.step = 1 /\ outcome # "throws"
              THEN Append(Splice(net, i), [r EXCEPT !.step = 2])
              \* initFirebaseSync goes on: await FirebaseSync.saveQuestions(
              \* 'polity_test_1', this.getQuestionsByTestId('polity_test_1'))
              ELSE IF IsAwaited(r, "saveTest")
              THEN Append(Splice(net, i),
                          Awaited(SaveQuestionsReq(DemoTestId, getQuestionsByTestId(DemoTestId))))
              ELSE Splice(net, i)
        /\ pc' = IF IsAwaited(r, "saveTest") THEN "awaitSaveQuestions"
                 ELSE IF IsAwaited(r, "saveQuestions") THEN "awaitQuestions"
                 ELSE pc
        /\ UNCHANGED <<mockTests, questions, accessKeys, nextId, firebaseLoaded, ret>>

(***************************************************************************)
(* initFirebaseSync, which the constructor starts and does not await: one  *)
(* step per await.                                                         *)
(***************************************************************************)
\* localKeysMap.set(k.key, k)
MapSet(m, k) ==
    LET index == CHOOSE i \in 0..Len(m) :
                    /\ i # 0 => Get(m[i], "key") = Get(k, "key")
                    /\ i = 0 => \A j \in 1..Len(m) : Get(m[j], "key") # Get(k, "key")
    IN  IF index # 0 THEN [m EXCEPT ![index] = k] ELSE Append(m, k)
RECURSIVE MapSetAll(_, _, _)
MapSetAll(m, keys, n) ==
    IF n = 0 THEN m ELSE MapSet(MapSetAll(m, keys, n - 1), keys[n])
mergeKeys(localKeys, firebaseKeys) ==
    MapSetAll(MapSetAll(<<>>, localKeys, Len(localKeys)), firebaseKeys, Len(firebaseKeys))

\* 1. Sync Keys: firebaseKeys = await FirebaseSync.getAllKeys()
syncKeys(outcome) ==
    /\ pc = "awaitKeys"
    /\ LET firebaseKeys == Values(fbKeys, outcome)
       IN  accessKeys' = IF Len(firebaseKeys) > 0 THEN mergeKeys(accessKeys, firebaseKeys)
                         ELSE accessKeys
    /\ pc' = "awaitTests"
    /\ UNCHANGED <<mockTests, questions, nextId, firebaseLoaded, net, ret,
                   fbKeys, fbTests, fbQuestions>>

demoTestIndex == FindIndex(mockTests, "id", DemoTestId)

\* 2. Sync Tests: firebaseTests = await FirebaseSync.getAllTests()
syncTests(outcome) ==
    /\ pc = "awaitTests"
    /\ LET firebaseTests == Values(fbTests, outcome)
       IN  IF Len(firebaseTests) > 0
           THEN /\ mockTests' = firebaseTests
                /\ pc' = "awaitQuestions"
                /\ UNCHANGED <<questions, net>>
           ELSE IF Len(mockTests) = 0
           THEN /\ mockTests' = <<demoTest>>
                /\ questions' = demoQuestions
                /\ net' = Send(<<SaveTestReq(demoTest), SaveQuestionsReq(DemoTestId, demoQuestions)>>)
                /\ pc' = "awaitQuestions"
           ELSE IF demoTestIndex # 0
           \* await FirebaseSync.saveTest(demoTest)
           THEN /\ net' = Append(net, Awaited(SaveTestReq(mockTests[demoTestIndex])))
                /\ pc' = "awaitSaveTest"
                /\ UNCHANGED <<mockTests, questions>>
           ELSE /\ pc' = "awaitQuestions"
                /\ UNCHANGED <<mockTests, questions, net>>
    /\ UNCHANGED <<accessKeys, nextId, firebaseLoaded, ret, fbKeys, fbTests, fbQuestions>>

\* 3. Sync Questions: firebaseQuestions = await FirebaseSync.getAllQuestions()
syncQuestions(outcome) ==
    /\ pc = "awaitQuestions"
    /\ LET firebaseQuestions == getAllQuestions(outcome)
       IN  questions' = IF Len(firebaseQuestions) > 0 THEN firebaseQuestions ELSE questions
    /\ pc' = "done"
    /\ UNCHANGED <<mockTests, accessKeys, nextId, firebaseLoaded, net, ret,
                   fbKeys, fbTests, fbQuestions>>

(***************************************************************************)
(* The inputs of the admin operations.                                     *)
(***************************************************************************)
TestDataInputs == {[questions |-> n] : n \in 0..1}

\* a draft question as the extractors hand it over (legacy property names)
rawQuestion ==
    [question |-> "What is Y?", option_a |-> "A", option_b |-> "B", option_c |-> "C",
     option_d |-> "D", explanation |-> "Because"]
\* a record of the question-bank JSON as PDFQuestionExtractor.toJSON writes it
pdfQuestion(n) ==
    [question_number |-> n, question_text_en |-> "What is X?", question_text_hi |-> Null,
     option_a_en |-> "A", option_b_en |-> "B", option_c_en |-> "", option_d_en |-> "",
     correct_option |-> "b", explanation_en |-> "", explanation_hi |-> Null,
     difficulty |-> "Moderate"]
QuestionInputs == {rawQuestion, pdfQuestion(2)}

Batches == UNION {[1..n -> QuestionInputs] : n \in 1..MaxBatch}

ImportInputs == {[questions |-> b] : b \in Batches} \cup {[title_en |-> "Bank"]}

UpdateInputs == {[question_text_en |-> "Edited", question_text_hi |-> Null]}

\* the ids of the tests held, and one id that no test has
GhostTestId == MaxIds + 1
HeldTestIds == {mockTests[i].id : i \in 1..Len(mockTests)}
TestIds == HeldTestIds \cup {GhostTestId}
QuestionIds == {questions[i].id : i \in 1..Len(questions)} \cup {GhostTestId}

(***************************************************************************)
(* The manager on its own: window.FirebaseSync is not defined, the local   *)
(* storage is empty.  The constructor runs initFirebaseSync, which falls   *)
(* back to initDemoTest, and then initDefaultKeys.                         *)
(***************************************************************************)
InitAdmin ==
    /\ firebaseLoaded = FALSE
    /\ mockTests = <<demoTest>>
    /\ questions = demoQuestions
    /\ accessKeys = initDefaultKeys(<<>>)
    /\ nextId = 1
    /\ net = <<>>
    /\ ret = [op |-> "constructor"]
    /\ pc = "done"
    /\ fbKeys = <<>> /\ fbTests = <<>> /\ fbQuestions = <<>>
    /\ fbResults = <<>> /\ fbNotifications = <<>> /\ now = 0
    /\ text = "" /\ blocks = <<>> /\ textLines = <<>> /\ pdfQuestions = <<>>
    /\ apiKey = "" /\ isProcessing = FALSE /\ pending = <<>> /\ definition = 2

offAdmin == <<mirrorVars, readVars, extractorVars>>

NextAdmin ==
    \/ \E testData \in TestDataInputs : createTest(testData) /\ UNCHANGED offAdmin
    \/ \E id \in TestIds : deleteTest(id) /\ UNCHANGED offAdmin
    \/ \E testId \in HeldTestIds, b \in Batches :
          addQuestionsToTest(testId, b) /\ UNCHANGED offAdmin
    \/ \E importData \in ImportInputs :
          importTestWithQuestions(importData) /\ UNCHANGED offAdmin
    \/ \E testId \in TestIds, q \in QuestionInputs :
          addSingleQuestion(testId, q) /\ UNCHANGED offAdmin
    \/ \E id \in QuestionIds, u \in UpdateInputs : updateQuestion(id, u) /\ UNCHANGED offAdmin
    \/ \E id \in QuestionIds : deleteQuestion(id) /\ UNCHANGED offAdmin
    \/ \E testId \in TestIds : duplicateTest(testId) /\ UNCHANGED offAdmin
    \/ \E testId \in TestIds : exportThenImport(testId) /\ UNCHANGED offAdmin

vars == <<mockTests, questions, accessKeys, nextId, firebaseLoaded, net, ret,
          pc, fbKeys, fbTests, fbQuestions, fbResults, fbNotifications, now,
          text, blocks, textLines, pdfQuestions, apiKey, isProcessing, pending, definition>>

SpecAdmin == InitAdmin /\ [][NextAdmin]_vars

(***************************************************************************)
(* FirebaseSync on its own, the key operations: saveKey, deleteKey and     *)
(* validateKey, each awaiting its one request.                             *)
(***************************************************************************)
FirebaseSync_saveKey(keyData, outcome) ==
    /\ fbKeys' = IF outcome = "ok" THEN Put(fbKeys, keyData) ELSE fbKeys
    /\ ret' = [op |-> "saveKey", outcome |-> outcome, val |-> (outcome = "ok")]
    /\ UNCHANGED <<adminVars, pc, fbTests, fbQuestions, readVars, extractorVars>>

FirebaseSync_deleteKey(keyId, outcome) ==
    /\ fbKeys' = IF outcome = "ok" THEN Remove(fbKeys, keyId) ELSE fbKeys
    /\ ret' = [op |-> "deleteKey", outcome |-> outcome, val |-> (outcome = "ok")]
    /\ UNCHANGED <<adminVars, pc, fbTests, fbQuestions, readVars, extractorVars>>

isActive_strict(k) == "is_active" \in DOMAIN k /\ k.is_active = TRUE
\* k.is_active !== false
isActive(k) == ~("is_active" \in DOMAIN k /\ k.is_active = FALSE)

validateKey(keyCode, outcome) ==
    /\ LET keys == Values(fbKeys, outcome)
       IN  ret' = [op |-> "validateKey", keyCode |-> keyCode, outcome |-> outcome,
                   collection |-> fbKeys,
                   val |-> \E i \in 1..Len(keys) :
                               Get(keys[i], "key") = keyCode /\ isActive(keys[i])]
    /\ UNCHANGED <<adminVars, mirrorVars, readVars, extractorVars>>

(***************************************************************************)
(* validateKeyFromDB: the relational backend queried for the rows of       *)
(* access_keys with key = keyCode and is_active = true; .single() gives an *)
(* error unless the query matches exactly one row.  The table holds the    *)
(* rows of the keys collection, a missing is_active being a null column.   *)
(***************************************************************************)
\* .eq('key', key).eq('is_active', true)
matchingRows(rows, key) ==
    SelectSeq(rows, LAMBDA k : /\ Get(k, "key") = key
                               /\ "is_active" \in DOMAIN k /\ k.is_active = TRUE)

\* .single(): [data, error]
single(rows) ==
    IF Len(rows) = 1 THEN [data |-> rows, error |-> FALSE]
    ELSE [data |-> <<>>, error |-> TRUE]

validateKeyFromDB(key, outcome) ==
    /\ LET answer == IF outcome = "ok" THEN single(matchingRows(fbKeys, key))
                     ELSE [data |-> <<>>, error |-> TRUE]
       IN  ret' = [op |-> "validateKeyFromDB", keyCode |-> key, outcome |-> outcome,
                   collection |-> fbKeys,
                   val |-> IF outcome = "throws" \/ answer.error THEN FALSE
                           ELSE Len(answer.data) = 1]
    /\ UNCHANGED <<adminVars, mirrorVars, readVars, extractorVars>>

StoredKeyIds == 1..MaxStoredKeys
StoredKeyCodes == {"GenZ1", "genz1"}
KeyData ==
    {[id |-> id, key |-> key] : id \in StoredKeyIds, key \in StoredKeyCodes}
        \cup {[id |-> id, key |-> key, is_active |-> a] :
                 id \in StoredKeyIds, key \in StoredKeyCodes, a \in BOOLEAN}
KeyCodes == StoredKeyCodes \cup {"GENZ1"}

InitKeyStore ==
    /\ firebaseLoaded = TRUE
    /\ mockTests = <<>> /\ questions = <<>> /\ accessKeys = <<>>
    /\ nextId = 1
    /\ net = <<>>
    /\ ret = [op |-> "load"]
    /\ pc = "done"
    /\ fbKeys = <<>> /\ fbTests = <<>> /\ fbQuestions = <<>>
    /\ fbResults = <<>> /\ fbNotifications = <<>> /\ now = 0
    /\ text = "" /\ blocks = <<>> /\ textLines = <<>> /\ pdfQuestions = <<>>
    /\ apiKey = "" /\ isProcessing = FALSE /\ pending = <<>> /\ definition = 2

NextKeyStore ==
    \/ \E keyData \in KeyData, outcome \in Outcomes : FirebaseSync_saveKey(keyData, outcome)
    \/ \E keyId \in StoredKeyIds, outcome \in Outcomes : FirebaseSync_deleteKey(keyId, outcome)
    \/ \E keyCode \in KeyCodes, outcome \in Outcomes : validateKey(keyCode, outcome)
    \/ \E keyCode \in KeyCodes, outcome \in Outcomes : validateKeyFromDB(keyCode, outcome)

SpecKeyStore == InitKeyStore /\ [][NextKeyStore]_vars

(***************************************************************************)
(* FirebaseSync on its own, reads and test operations: each call awaits    *)
(* its requests and returns; outcome is how the backend answers a request. *)
(***************************************************************************)
FirebaseSync_getAllKeys(outcome) ==
    /\ ret' = [op |-> "getAllKeys", outcome |-> outcome, collection |-> fbKeys,
               val |-> Values(fbKeys, outcome)]
    /\ UNCHANGED <<adminVars, mirrorVars, readVars, extractorVars>>

FirebaseSync_getAllTests(outcome) ==
    /\ ret' = [op |-> "getAllTests", outcome |-> outcome, collection |-> fbTests,
               val |-> Values(fbTests, outcome)]
    /\ UNCHANGED <<adminVars, mirrorVars, readVars, extractorVars>>

FirebaseSync_saveTest(testData, outcome) ==
    /\ fbTests' = IF outcome = "ok" THEN Put(fbTests, testData) ELSE fbTests
    /\ ret' = [op |-> "saveTest", outcome |-> outcome, val |-> (outcome = "ok")]
    /\ UNCHANGED <<adminVars, pc, fbKeys, fbQuestions, readVars, extractorVars>>

\* two DELETE requests, the second sent unless the first fetch throws; the
\* status of neither response is read
FirebaseSync_deleteTest(testId, first, second) ==
    /\ fbTests' = IF first = "ok" THEN Remove(fbTests, testId) ELSE fbTests
    /\ fbQuestions' = IF first # "throws" /\ second = "ok"
                      THEN Remove(fbQuestions, testId) ELSE fbQuestions
    /\ ret' = [op |-> "deleteTest", testId |-> testId,
               outcome |-> IF first = "ok" THEN second ELSE first,
               collection |-> fbTests,
               val |-> (first # "throws" /\ second # "throws")]
    /\ UNCHANGED <<adminVars, pc, fbKeys, readVars, extractorVars>>

StoredTestIds == 1..MaxStoredTests
StoredTests == {[id |-> id, name_en |-> name] : id \in StoredTestIds, name \in {"A", "B"}}

InitStore == InitKeyStore

NextStore ==
    \/ \E keyData \in KeyData, outcome \in Outcomes : FirebaseSync_saveKey(keyData, outcome)
    \/ \E outcome \in Outcomes : FirebaseSync_getAllKeys(outcome)
    \/ \E testData \in StoredTests, outcome \in Outcomes :
          FirebaseSync_saveTest(testData, outcome)
    \/ \E outcome \in Outcomes : FirebaseSync_getAllTests(outcome)
    \/ \E testId \in StoredTestIds, first \in Outcomes, second \in Outcomes :
          FirebaseSync_deleteTest(testId, first, second)

SpecStore == InitStore /\ [][NextStore]_vars

(***************************************************************************)
(* FirebaseSync on its own, the questions of a test: saveQuestions PUTs    *)
(* the node of the test, getQuestionsByTestId reads it.                    *)
(***************************************************************************)
FirebaseSync_saveQuestions(testId, qs, outcome) ==
    /\ fbQuestions' = IF outcome = "ok" THEN PutQuestions(fbQuestions, testId, qs)
                      ELSE fbQuestions
    /\ ret' = [op |-> "saveQuestions", testId |-> testId, questions |-> qs,
               outcome |-> outcome, val |-> (outcome = "ok")]
    /\ UNCHANGED <<adminVars, pc, fbKeys, fbTests, readVars, extractorVars>>

\* Object.values(data) of the node of the test, [] when the node is missing
questionsAt(node, testId) ==
    LET found == SelectSeq(node, LAMBDA r : r.id = testId)
    IN  IF Len(found) = 0 THEN <<>>
        ELSE [i \in 1..Len(found[1].children) |-> found[1].children[i].q]

FirebaseSync_getQuestionsByTestId(testId, outcome) ==
    /\ ret' = [op |-> "getQuestionsByTestId", testId |-> testId, outcome |-> outcome,
               val |-> IF outcome = "ok" THEN questionsAt(fbQuestions, testId)
                       ELSE Values(<<>>, outcome)]
    /\ UNCHANGED <<adminVars, mirrorVars, readVars, extractorVars>>

\* the records handed to saveQuestions: two demo questions (ids 'q1' and
\* 'q2'), a question with a generated id, and a draft without an id
SavedRecords ==
    {[id |-> DemoQuestionId(1), question_en |-> "Demo"],
     [id |-> DemoQuestionId(2), question_en |-> "Demo"],
     [id |-> 1, question_en |-> "Stored"],
     [question_en |-> "Draft"]}
SavedLists == UNION {[1..n -> SavedRecords] : n \in 0..MaxSaved}

NextQuestionStore ==
    \/ \E testId \in StoredTestIds, qs \in SavedLists, outcome \in Outcomes :
          FirebaseSync_saveQuestions(testId, qs, outcome)
    \/ \E testId \in StoredTestIds, outcome \in Outcomes :
          FirebaseSync_getQuestionsByTestId(testId, outcome)

SpecQuestionStore == InitStore /\ [][NextQuestionStore]_vars

(***************************************************************************)
(* The manager with its keys and the backend.  The constructor reads the   *)
(* local storage (empty on a first visit, or as an earlier session left    *)
(* it), starts initFirebaseSync, which runs up to its first await, and     *)
(* runs initDefaultKeys.  The backend holds the keys other devices wrote.  *)
(***************************************************************************)
storedKey == [id |-> 50, key |-> "AAAA-AAAA-AAAA-AAAA", is_active |-> TRUE]
StoredSessions ==
    {[mockTests |-> <<>>, questions |-> <<>>, accessKeys |-> <<>>],
     [mockTests |-> <<demoTest>>, questions |-> demoQuestions,
      accessKeys |-> <<storedKey>> \o initDefaultKeys(<<>>)]}

remoteKeyA == [id |-> 51, key |-> "genztesting1"]
remoteKeyB == [id |-> DefaultKeyId(1), key |-> defaultKeys[1], is_active |-> FALSE]
RemoteKeys == {<<>>, <<remoteKeyA>>, <<remoteKeyA, remoteKeyB>>}

KeyIds ==
    {accessKeys[i].id : i \in {j \in 1..Len(accessKeys) : "id" \in DOMAIN accessKeys[j]}}
        \cup {GhostTestId}

InitKeys ==
    /\ firebaseLoaded \in BOOLEAN
    /\ \E stored \in StoredSessions :
          /\ accessKeys = initDefaultKeys(stored.accessKeys)
          /\ net = IF firebaseLoaded THEN initDefaultKeysReqs(stored.accessKeys) ELSE <<>>
          /\ IF ~firebaseLoaded /\ Len(stored.mockTests) = 0
             THEN mockTests = <<demoTest>> /\ questions = demoQuestions
             ELSE mockTests = stored.mockTests /\ questions = stored.questions
    /\ pc = IF firebaseLoaded THEN "awaitKeys" ELSE "done"
    /\ nextId = 1
    /\ ret = [op |-> "constructor"]
    /\ fbKeys \in RemoteKeys
    /\ fbTests = <<>> /\ fbQuestions = <<>>
    /\ fbResults = <<>> /\ fbNotifications = <<>> /\ now = 0
    /\ text = "" /\ blocks = <<>> /\ textLines = <<>> /\ pdfQuestions = <<>>
    /\ apiKey = "" /\ isProcessing = FALSE /\ pending = <<>> /\ definition = 2

NextKeys ==
    \/ \E keyString \in KeyStrings :
          nextId <= MaxKeys /\ Len(net) < MaxNet /\ createKey(keyString) /\ UNCHANGED offAdmin
    \/ \E keyId \in KeyIds : Len(net) < MaxNet /\ deleteKey(keyId) /\ UNCHANGED offAdmin
    \/ \E i \in 1..Len(net), outcome \in Outcomes : Deliver(i, outcome) /\ UNCHANGED <<readVars, extractorVars>>
    \/ \E outcome \in Outcomes : syncKeys(outcome) /\ UNCHANGED <<readVars, extractorVars>>
    \/ \E outcome \in Outcomes : syncTests(outcome) /\ UNCHANGED <<readVars, extractorVars>>
    \/ \E outcome \in Outcomes : syncQuestions(outcome) /\ UNCHANGED <<readVars, extractorVars>>

SpecKeys == InitKeys /\ [][NextKeys]_vars

(***************************************************************************)
(* The manager with the mirror loaded and a backend that carries out every *)
(* request, the requests not awaited completing in any order.  The admin   *)
(* acts once initFirebaseSync has finished.                                *)
(***************************************************************************)
InitMirror == InitKeys /\ firebaseLoaded

NextMirror ==
    \/ syncKeys("ok") /\ UNCHANGED <<readVars, extractorVars>>
    \/ syncTests("ok") /\ UNCHANGED <<readVars, extractorVars>>
    \/ syncQuestions("ok") /\ UNCHANGED <<readVars, extractorVars>>
    \/ \E testId \in HeldTestIds, b \in Batches :
          /\ pc = "done" /\ Len(net) < MaxNet
          /\ addQuestionsToTest(testId, b) /\ UNCHANGED offAdmin
    \/ \E id \in HeldTestIds :
          /\ pc = "done" /\ Len(net) < MaxNet
          /\ deleteTest(id) /\ UNCHANGED offAdmin
    \/ \E i \in 1..Len(net) : Deliver(i, "ok") /\ UNCHANGED <<readVars, extractorVars>>

SpecMirror == InitMirror /\ [][NextMirror]_vars

(***************************************************************************)
(* The same manager with the admin acting from the moment the constructor  *)
(* has returned, while initFirebaseSync is still at one of its awaits.     *)
(***************************************************************************)
NextRace ==
    \/ syncKeys("ok") /\ UNCHANGED <<readVars, extractorVars>>
    \/ syncTests("ok") /\ UNCHANGED <<readVars, extractorVars>>
    \/ syncQuestions("ok") /\ UNCHANGED <<readVars, extractorVars>>
    \/ \E testData \in TestDataInputs :
          /\ nextId <= MaxRaceTests /\ Len(net) < MaxNet
          /\ createTest(testData) /\ UNCHANGED offAdmin
    \/ \E testId \in HeldTestIds, q \in QuestionInputs :
          /\ Len(net) = 0 /\ Len(questions) < MaxQuestions
          /\ addQuestionsToTest(testId, <<q>>) /\ UNCHANGED offAdmin
    \/ \E id \in HeldTestIds :
          Len(net) < MaxNet /\ deleteTest(id) /\ UNCHANGED offAdmin
    \/ \E i \in 1..Len(net) : Deliver(i, "ok") /\ UNCHANGED <<readVars, extractorVars>>

SpecRace == InitMirror /\ [][NextRace]_vars

(***************************************************************************)
(* The same manager and backend, the admin editing the questions of the    *)
(* tests held once initFirebaseSync has finished.                          *)
(***************************************************************************)
NextSaves ==
    \/ syncKeys("ok") /\ UNCHANGED <<readVars, extractorVars>>
    \/ syncTests("ok") /\ UNCHANGED <<readVars, extractorVars>>
    \/ syncQuestions("ok") /\ UNCHANGED <<readVars, extractorVars>>
    \/ \E testId \in HeldTestIds, q \in QuestionInputs :
          /\ pc = "done" /\ Len(net) < MaxNet /\ nextId <= MaxAdded
          /\ addQuestionsToTest(testId, <<q>>) /\ UNCHANGED offAdmin
    \/ \E testId \in HeldTestIds, q \in QuestionInputs :
          /\ pc = "done" /\ Len(net) < MaxNet /\ nextId <= MaxAdded
          /\ addSingleQuestion(testId, q) /\ UNCHANGED offAdmin
    \/ \E id \in QuestionIds, u \in UpdateInputs :
          /\ pc = "done" /\ Len(net) < MaxNet
          /\ updateQuestion(id, u) /\ UNCHANGED offAdmin
    \/ \E id \in QuestionIds :
          /\ pc = "done" /\ Len(net) < MaxNet
          /\ deleteQuestion(id) /\ UNCHANGED offAdmin
    \/ \E i \in 1..Len(net) : Deliver(i, "ok") /\ UNCHANGED <<readVars, extractorVars>>

SpecSaves == InitMirror /\ [][NextSaves]_vars

(***************************************************************************)
(* FirebaseSync, test results: saveTestResult and getTestLeaderboard.      *)
(* fbResults lists the results of every test in key order; the key         *)
(* 'result_<Date.now()>_<random>' of a result is the next id here.         *)
(***************************************************************************)
newResult(id, testId, resultData) ==
    [id |-> id, testId |-> testId,
     userName |-> Or(Get(resultData, "userName"), "Anonymous"),
     correct |-> OrNum(GetNum(resultData, "correct"), 0),
     timeTaken |-> OrNum(GetNum(resultData, "timeTaken"), 0)]

saveTestResult(testId, resultData, outcome) ==
    /\ nextId <= MaxResults
    /\ LET result == newResult(nextId, testId, resultData)
       IN  /\ fbResults' = IF outcome = "ok" THEN Put(fbResults, result) ELSE fbResults
           /\ ret' = [op |-> "saveTestResult", found |-> (outcome = "ok"),
                      val |-> IF outcome = "ok" THEN result.id ELSE 0]
    /\ nextId' = nextId + 1
    /\ UNCHANGED <<mockTests, questions, accessKeys, firebaseLoaded, net, mirrorVars,
                   fbNotifications, now, extractorVars>>

\* results.sort((a, b) => ...): the comparator, and the stable sort it drives
compareResults_byCorrectOnly(a, b) == b.correct - a.correct
compareResults(a, b) ==
    IF b.correct # a.correct THEN b.correct - a.correct ELSE a.timeTaken - b.timeTaken

RECURSIVE insertResult(_, _)
insertResult(sorted, r) ==
    IF Len(sorted) = 0 THEN <<r>>
    ELSE IF compareResults(sorted[Len(sorted)], r) <= 0 THEN Append(sorted, r)
    ELSE Append(insertResult(SubSeq(sorted, 1, Len(sorted) - 1), r), sorted[Len(sorted)])
RECURSIVE sortResults(_, _)
sortResults(results, n) ==
    IF n = 0 THEN <<>> ELSE insertResult(sortResults(results, n - 1), results[n])

\* results.map((r, idx) => ({ ...r, rank: idx + 1 }))
ranked(results) == [i \in 1..Len(results) |-> Merge(results[i], [rank |-> i])]

resultsOf(node, testId) == SelectSeq(node, LAMBDA r : r.testId = testId)

getTestLeaderboard(testId, outcome) ==
    /\ LET results == Values(resultsOf(fbResults, testId), outcome)
       IN  ret' = [op |-> "getTestLeaderboard", testId |-> testId, outcome |-> outcome,
                   stored |-> fbResults,
                   val |-> ranked(sortResults(results, Len(results)))]
    /\ UNCHANGED <<adminVars, mirrorVars, readVars, extractorVars>>

ResultTestIds == 1..2
ResultData ==
    {[userName |-> "A", correct |-> c, timeTaken |-> t] : c \in 1..MaxScore, t \in 1..MaxScore}
        \cup {[userName |-> ""]}

InitBoard ==
    /\ firebaseLoaded = TRUE
    /\ mockTests = <<>> /\ questions = <<>> /\ accessKeys = <<>>
    /\ nextId = 1
    /\ net = <<>>
    /\ ret = [op |-> "load"]
    /\ pc = "done"
    /\ fbKeys = <<>> /\ fbTests = <<>> /\ fbQuestions = <<>>
    /\ fbResults = <<>> /\ fbNotifications = <<>> /\ now = 0
    /\ text = "" /\ blocks = <<>> /\ textLines = <<>> /\ pdfQuestions = <<>>
    /\ apiKey = "" /\ isProcessing = FALSE /\ pending = <<>> /\ definition = 2

NextBoard ==
    \/ \E testId \in ResultTestIds, resultData \in ResultData, outcome \in Outcomes :
          saveTestResult(testId, resultData, outcome)
    \/ \E testId \in ResultTestIds, outcome \in Outcomes : getTestLeaderboard(testId, outcome)

SpecBoard == InitBoard /\ [][NextBoard]_vars

(***************************************************************************)
(* FirebaseSync, notifications: saveNotification, deleteNotification and   *)
(* getActiveNotifications.  Times are whole numbers; the backend does not  *)
(* store a null, so a notification without expiry has no expires_at.       *)
(***************************************************************************)
saveNotification(notification, outcome) ==
    /\ fbNotifications' = IF outcome = "ok" THEN Put(fbNotifications, notification)
                          ELSE fbNotifications
    /\ ret' = [op |-> "saveNotification", val |-> (outcome = "ok")]
    /\ UNCHANGED <<adminVars, mirrorVars, fbResults, now, extractorVars>>

deleteNotification(id, outcome) ==
    /\ fbNotifications' = IF outcome = "ok" THEN Remove(fbNotifications, id)
                          ELSE fbNotifications
    /\ ret' = [op |-> "deleteNotification", val |-> (outcome = "ok")]
    /\ UNCHANGED <<adminVars, mirrorVars, fbResults, now, extractorVars>>

\* the filter of getActiveNotifications, at the time t
isDisplayed_ignoringExpiry(n, t) == "is_active" \in DOMAIN n /\ n.is_active
isDisplayed(n, t) ==
    /\ "is_active" \in DOMAIN n /\ n.is_active
    /\ ~("expires_at" \in DOMAIN n /\ n.expires_at < t)

\* .sort((a, b) => new Date(b.created_at) - new Date(a.created_at))
compareNotifications(a, b) == b.created_at - a.created_at
RECURSIVE insertNotification(_, _)
insertNotification(sorted, n) ==
    IF Len(sorted) = 0 THEN <<n>>
    ELSE IF compareNotifications(sorted[Len(sorted)], n) <= 0 THEN Append(sorted, n)
    ELSE Append(insertNotification(SubSeq(sorted, 1, Len(sorted) - 1), n), sorted[Len(sorted)])
RECURSIVE sortNotifications(_, _)
sortNotifications(ns, k) ==
    IF k = 0 THEN <<>> ELSE insertNotification(sortNotifications(ns, k - 1), ns[k])

getActiveNotifications(outcome) ==
    /\ LET all == Values(fbNotifications, outcome)
           active == SelectSeq(all, LAMBDA n : isDisplayed(n, now))
       IN  ret' = [op |-> "getActiveNotifications", outcome |-> outcome,
                   stored |-> fbNotifications, now |-> now,
                   val |-> sortNotifications(active, Len(active))]
    /\ UNCHANGED <<adminVars, mirrorVars, readVars, extractorVars>>

\* time passes
Tick ==
    /\ now < MaxTime
    /\ now' = now + 1
    /\ UNCHANGED <<adminVars, mirrorVars, ret, fbResults, fbNotifications, extractorVars>>

NotificationIds == 1..MaxNotifications
Notifications ==
    LET base == {[id |-> id, created_at |-> c] : id \in NotificationIds, c \in 1..MaxTime}
        flagged == base \cup {Merge(n, [is_active |-> a]) : n \in base, a \in BOOLEAN}
    IN  flagged \cup {Merge(n, [expires_at |-> e]) : n \in flagged, e \in 1..MaxTime}

InitNotifications ==
    /\ firebaseLoaded = TRUE
    /\ mockTests = <<>> /\ questions = <<>> /\ accessKeys = <<>>
    /\ nextId = 1
    /\ net = <<>>
    /\ ret = [op |-> "load"]
    /\ pc = "done"
    /\ fbKeys = <<>> /\ fbTests = <<>> /\ fbQuestions = <<>>
    /\ fbResults = <<>> /\ fbNotifications = <<>> /\ now = 0
    /\ text = "" /\ blocks = <<>> /\ textLines = <<>> /\ pdfQuestions = <<>>
    /\ apiKey = "" /\ isProcessing = FALSE /\ pending = <<>> /\ definition = 2

NextNotifications ==
    \/ \E notification \in Notifications, outcome \in Outcomes :
          saveNotification(notification, outcome)
    \/ \E id \in NotificationIds, outcome \in Outcomes : deleteNotification(id, outcome)
    \/ \E outcome \in Outcomes : getActiveNotifications(outcome)
    \/ Tick

SpecNotifications == InitNotifications /\ [][NextNotifications]_vars

(***************************************************************************)
(* PDFQuestionExtractor.  A text is a string; Char(s, i) is its i-th       *)
(* character ("" past its end).  The two Devanagari keywords of the        *)
(* patterns are written as ASCII words of the same lengths, {utr} and      *)
(* {vyakhy}.                                                               *)
(***************************************************************************)
Char(s, i) == IF 1 <= i /\ i <= Len(s) THEN SubSeq(s, i, i) ELSE ""
From(s, i) == SubSeq(s, i, Len(s))

Digits == {"0", "1", "2", "3", "4", "5", "6", "7", "8", "9"}
Space == {" ", "\n", "\t", "\r"}                        \* \s
OptionLetters == {"a", "b", "c", "d", "A", "B", "C", "D"}   \* [a-dA-D]

UpperCase == "ABCDEFGHIJKLMNOPQRSTUVWXYZ"
LowerCase == "abcdefghijklmnopqrstuvwxyz"
toLowerCaseChar(c) ==
    CASE c = "A" -> "a" [] c = "B" -> "b" [] c = "C" -> "c" [] c = "D" -> "d"
      [] c = "E" -> "e" [] c = "F" -> "f" [] c = "G" -> "g" [] c = "H" -> "h"
      [] c = "I" -> "i" [] c = "J" -> "j" [] c = "K" -> "k" [] c = "L" -> "l"
      [] c = "M" -> "m" [] c = "N" -> "n" [] c = "O" -> "o" [] c = "P" -> "p"
      [] c = "Q" -> "q" [] c = "R" -> "r" [] c = "S" -> "s" [] c = "T" -> "t"
      [] c = "U" -> "u" [] c = "V" -> "v" [] c = "W" -> "w" [] c = "X" -> "x"
      [] c = "Y" -> "y" [] c = "Z" -> "z" [] OTHER -> c

\* parseInt of a string of digits
RECURSIVE parseInt(_)
parseInt(s) ==
    IF Len(s) = 0 THEN 0
    ELSE 10 * parseInt(SubSeq(s, 1, Len(s) - 1))
             + (CHOOSE d \in 0..9 : Char("0123456789", d + 1) = Char(s, Len(s)))

\* the position after the longest run of characters of a class that starts at p
Min(S) == CHOOSE x \in S : \A y \in S : x <= y
Skip(s, p, class) ==
    LET stops == {i \in p..Len(s) : Char(s, i) \notin class}
    IN  IF Char(s, p) \notin class THEN p
        ELSE IF stops = {} THEN Len(s) + 1 ELSE Min(stops)

\* String.prototype.trim
RECURSIVE trimEnd(_)
trimEnd(s) ==
    IF Len(s) > 0 /\ Char(s, Len(s)) \in Space THEN trimEnd(SubSeq(s, 1, Len(s) - 1)) ELSE s
trim(s) == trimEnd(From(s, Skip(s, 1, Space)))

\* s.split('\n')
indexOf(s, c, p) ==
    LET found == {i \in p..Len(s) : Char(s, i) = c}
    IN  IF p > Len(s) THEN p ELSE IF found = {} THEN Len(s) + 1 ELSE Min(found)
RECURSIVE splitLines(_, _)
splitLines(s, p) ==
    LET q == indexOf(s, "\n", p)
    IN  IF q > Len(s) THEN <<SubSeq(s, p, Len(s))>>
        ELSE <<SubSeq(s, p, q - 1)>> \o splitLines(s, q + 1)

\* the keyword is at position p of s, in any case (the i flag)
StartsWith(s, p, keyword) ==
    /\ p + Len(keyword) - 1 <= Len(s)
    /\ \A i \in 1..Len(keyword) :
          toLowerCaseChar(Char(s, p + i - 1)) = toLowerCaseChar(Char(keyword, i))

NoMatch == [ok |-> FALSE]

\* /(?:^|\n)\s*(\d+)\s*[.\)]\s*/ matched at position p
matchNumberPattern(s, p) ==
    IF p # 1 /\ Char(s, p) # "\n" THEN NoMatch
    ELSE LET p1 == Skip(s, IF p = 1 THEN p ELSE p + 1, Space)
             p2 == Skip(s, p1, Digits)
             p3 == Skip(s, p2, Space)
         IN  IF p2 > p1 /\ Char(s, p3) \in {".", ")"}
             THEN [ok |-> TRUE, number |-> SubSeq(s, p1, p2 - 1),
                   end |-> Skip(s, p3 + 1, Space)]
             ELSE NoMatch

\* /Q\.?\s*(\d+)\s*[.\)]/i matched at position p
matchQPattern(s, p) ==
    IF toLowerCaseChar(Char(s, p)) # "q" THEN NoMatch
    ELSE LET p1 == Skip(s, IF Char(s, p + 1) = "." THEN p + 2 ELSE p + 1, Space)
             p2 == Skip(s, p1, Digits)
             p3 == Skip(s, p2, Space)
         IN  IF p2 > p1 /\ Char(s, p3) \in {".", ")"}
             THEN [ok |-> TRUE, number |-> SubSeq(s, p1, p2 - 1), end |-> p3 + 1]
             ELSE NoMatch

matchPattern(pattern, s, p) ==
    IF pattern = "number" THEN matchNumberPattern(s, p) ELSE matchQPattern(s, p)

\* text.split(pattern) with one capture group: the piece before each match and
\* the number captured, then the rest; p is where the current piece starts
\* and where the next match, the leftmost one, is looked for
RECURSIVE split(_, _, _)
split(pattern, s, p) ==
    LET matches == {i \in p..Len(s) : matchPattern(pattern, s, i).ok}
    IN  IF matches = {} THEN <<SubSeq(s, p, Len(s))>>
        ELSE LET q == Min(matches)
                 m == matchPattern(pattern, s, q)
             IN  <<SubSeq(s, p, q - 1), m.number>> \o split(pattern, s, m.end)

\* /^[\(\[]?([a-dA-D])[\)\].\s]+(.+)/ on a trimmed line: the run after the
\* letter gives its last character back to (.+) when it reaches the end
optMatch(line) ==
    LET p0 == IF Char(line, 1) \in {"(", "["} THEN 2 ELSE 1
        p1 == Skip(line, p0 + 1, {")", "]", "."} \cup Space)
        p2 == IF p1 > Len(line) THEN Len(line) ELSE p1
    IN  IF Char(line, p0) \in OptionLetters /\ p2 > p0 + 1
        THEN [ok |-> TRUE, letter |-> Char(line, p0), text |-> From(line, p2)]
        ELSE NoMatch

\* keyword[:\s]*[\(\[]?([a-dA-D])[\)\]]? matched at position p
ansMatchWith(line, p, keyword) ==
    LET p1 == Skip(line, p + Len(keyword), {":"} \cup Space)
        p2 == IF Char(line, p1) \in {"(", "["} THEN p1 + 1 ELSE p1
    IN  IF StartsWith(line, p, keyword) /\ Char(line, p2) \in OptionLetters
        THEN [ok |-> TRUE, letter |-> Char(line, p2)]
        ELSE NoMatch

\* (?:keyword|...)[:\s]*[\(\[]?([a-dA-D])[\)\]]? matched at position p: the
\* first keyword, in the order of the alternation, that gives a match
ansMatchAt(line, p, keywords) ==
    LET ks == {k \in 1..Len(keywords) : ansMatchWith(line, p, keywords[k]).ok}
    IN  IF ks = {} THEN NoMatch ELSE ansMatchWith(line, p, keywords[Min(ks)])

\* line.match(pattern): the leftmost match
ansMatch(line, keywords) ==
    LET matches == {p \in 1..Len(line) : ansMatchAt(line, p, keywords).ok}
    IN  IF matches = {} THEN NoMatch ELSE ansMatchAt(line, Min(matches), keywords)

AnswerKeywords == <<"Answer", "Ans", "{utr}", "Correct">>
AnswerKeywordsOfLineScan == <<"Answer", "Ans", "{utr}">>
ExplanationKeywords == <<"Explanation", "{vyakhy}", "Hint", "Solution">>

\* /^(?:Explanation|...|Hint|Solution)[:\s]*/i: where the match ends, 0 for no match
explanationMatch(line) ==
    LET found == {k \in 1..Len(ExplanationKeywords) : StartsWith(line, 1, ExplanationKeywords[k])}
    IN  IF found = {} THEN 0
        ELSE Skip(line, 1 + Len(ExplanationKeywords[CHOOSE k \in found : TRUE]),
                  {":"} \cup Space)

(***************************************************************************)
(* _parseQuestionContent: a draft question is [number, question, options,  *)
(* answer, explanation]; inQuestion is the flag of the loop.                *)
(***************************************************************************)
emptyQuestion(number, question) ==
    [number |-> number, question |-> question,
     options |-> [a |-> "", b |-> "", c |-> "", d |-> ""],
     answer |-> "", explanation |-> ""]

Join(a, b) == IF a = "" THEN b ELSE a \o " " \o b

\* the body of the loop over the lines of the content
parseLine(st, line) ==
    LET trimmed == trim(line)
        q == st.q
        opt == optMatch(trimmed)
        ans == ansMatch(trimmed, AnswerKeywords)
        expl == explanationMatch(trimmed)
    IN  IF trimmed = "" THEN st
        ELSE IF opt.ok
        THEN [q |-> [q EXCEPT !.options[toLowerCaseChar(opt.letter)] = trim(opt.text)],
              inQuestion |-> FALSE]
        ELSE IF ans.ok
        THEN [st EXCEPT !.q.answer = toLowerCaseChar(ans.letter)]
        ELSE IF expl # 0
        THEN [st EXCEPT !.q.explanation = From(trimmed, expl)]
        ELSE IF st.inQuestion
        THEN [st EXCEPT !.q.question = Join(q.question, trimmed)]
        ELSE IF q.answer # ""
        THEN [st EXCEPT !.q.explanation = Join(q.explanation, trimmed)]
        ELSE st

RECURSIVE parseLines(_, _, _)
parseLines(st, lines, n) ==
    IF n = 0 THEN st ELSE parseLine(parseLines(st, lines, n - 1), lines[n])

\* <<q>>, or <<>> where the source returns null
draftQuestion(number, content) ==
    LET lines == splitLines(content, 1)
    IN  parseLines([q |-> emptyQuestion(number, ""), inQuestion |-> TRUE],
                   lines, Len(lines)).q

parseQuestionContent(number, content) ==
    LET valid(q) ==
            IF Len(q.question) > 5 /\ (q.options.a # "" \/ q.options.b # "")
            THEN <<q>> ELSE <<>>
    IN  valid(draftQuestion(number, content))

\* the loop of _extractWithNumberPattern and _extractWithQPattern over the parts
RECURSIVE extractParts(_, _)
extractParts(parts, i) ==
    IF i >= Len(parts) THEN <<>>
    ELSE (IF Len(parts[i + 1]) > 10
          THEN parseQuestionContent(parseInt(parts[i]), parts[i + 1])
          ELSE <<>>) \o extractParts(parts, i + 2)

extractWithNumberPattern(s) == extractParts(split("number", s, 1), 2)
extractWithQPattern(s) == extractParts(split("Q", s, 1), 2)

(***************************************************************************)
(* _extractLineByLine: currentQ is <<>> for null, <<q>> otherwise.         *)
(***************************************************************************)
\* /^(\d+)\s*[.\)]\s*(.+)/ on a trimmed line
numMatch(line) ==
    LET p1 == Skip(line, 1, Digits)
        p2 == Skip(line, p1, Space)
        p3 == Skip(line, p2 + 1, Space)
    IN  IF p1 > 1 /\ Char(line, p2) \in {".", ")"} /\ p3 <= Len(line)
        THEN [ok |-> TRUE, number |-> SubSeq(line, 1, p1 - 1), text |-> From(line, p3)]
        ELSE NoMatch

\* numMatch && parseInt(numMatch[1]) === qNumber + 1
opensQuestion_anyNumber(num, qNumber) == num.ok
opensQuestion(num, qNumber) == num.ok /\ parseInt(num.number) = qNumber + 1

\* questions.push(currentQ) if currentQ && currentQ.question.length > 10
pushCurrent(st) ==
    IF Len(st.currentQ) = 1 /\ Len(st.currentQ[1].question) > 10
    THEN st.questions \o st.currentQ ELSE st.questions

scanLine(st, line) ==
    LET trimmed == trim(line)
        num == numMatch(trimmed)
        opt == optMatch(trimmed)
        ans == ansMatch(trimmed, AnswerKeywordsOfLineScan)
    IN  IF trimmed = "" THEN st
        ELSE IF opensQuestion(num, st.qNumber)
        THEN [questions |-> pushCurrent(st),
              qNumber |-> parseInt(num.number),
              currentQ |-> <<emptyQuestion(parseInt(num.number), num.text)>>]
        ELSE IF Len(st.currentQ) = 0 THEN st
        ELSE IF opt.ok
        THEN [st EXCEPT !.currentQ[1].options[toLowerCaseChar(opt.letter)] = trim(opt.text)]
        ELSE IF ans.ok
        THEN [st EXCEPT !.currentQ[1].answer = toLowerCaseChar(ans.letter)]
        ELSE IF st.currentQ[1].options.a = "" /\ Len(trimmed) > 3
        THEN [st EXCEPT !.currentQ[1].question = @ \o " " \o trimmed]
        ELSE st

RECURSIVE scanLines(_, _, _)
scanLines(st, lines, n) ==
    IF n = 0 THEN st ELSE scanLine(scanLines(st, lines, n - 1), lines[n])

extractLineByLine(s) ==
    LET lines == splitLines(s, 1)
    IN  pushCurrent(scanLines([questions |-> <<>>, qNumber |-> 0, currentQ |-> <<>>],
                              lines, Len(lines)))

(***************************************************************************)
(* parseQuestions                                                          *)
(***************************************************************************)
\* the questions parseQuestions settles on, and how many of the three
\* strategies it ran to get them
firstNonEmpty_lineScan(s) == [val |-> extractLineByLine(s), ran |-> 3]
firstNonEmpty(s) ==
    LET third(byLine) == [val |-> byLine, ran |-> 3]
        second(byQ) ==
            IF Len(byQ) # 0 THEN [val |-> byQ, ran |-> 2] ELSE third(extractLineByLine(s))
        first(byNumber) ==
            IF Len(byNumber) # 0 THEN [val |-> byNumber, ran |-> 1]
            ELSE second(extractWithQPattern(s))
    IN  first(extractWithNumberPattern(s))

parsed(s) == firstNonEmpty(s).val

parseQuestions ==
    /\ \E found \in {firstNonEmpty(text)} :
          /\ pdfQuestions' = found.val
          /\ ret' = [op |-> "parseQuestions", val |-> found.val, ran |-> found.ran]
    /\ UNCHANGED <<adminVars, mirrorVars, readVars, text, blocks, textLines, apiKey, isProcessing, pending, definition>>

(***************************************************************************)
(* toJSON: the draft questions held by the extractor as import records.    *)
(* Date.now() is the clock of the model.                                   *)
(***************************************************************************)
\* Math.max(30, Math.ceil(n * 1.2))
timeLimitMinutes(n) == IF (6 * n + 4) \div 5 > 30 THEN (6 * n + 4) \div 5 ELSE 30

\* q.number || i + 1, i being the 0-based index of map
questionNumber(q, i) == IF q.number # 0 THEN q.number ELSE i + 1

\* the record of the draft at 0-based index i
importRecord(q, i) ==
    [id |-> <<"q_", now, i>>,
     question_number |-> questionNumber(q, i),
     question_text_en |-> q.question,
     question_text_hi |-> Null,
     option_a_en |-> q.options.a, option_b_en |-> q.options.b,
     option_c_en |-> q.options.c, option_d_en |-> q.options.d,
     correct_option |-> IF q.answer # "" THEN q.answer ELSE "a",
     explanation_en |-> q.explanation,
     explanation_hi |-> Null,
     difficulty |-> "Moderate"]

toJSON(testName, subject) ==
    /\ ret' = [op |-> "toJSON",
               val |-> [id |-> <<"test_", now>>,
                        title_en |-> testName, title_hi |-> Null, subject |-> subject,
                        total_questions |-> Len(pdfQuestions),
                        time_limit_minutes |-> timeLimitMinutes(Len(pdfQuestions)),
                        difficulty |-> "Moderate", created_at |-> now,
                        questions |-> [k \in 1..Len(pdfQuestions) |->
                                          importRecord(pdfQuestions[k], k - 1)]]]
    /\ UNCHANGED <<adminVars, mirrorVars, readVars, extractorVars>>

TestNames == {"Imported Test", "Polity"}

(***************************************************************************)
(* The text of a PDF made of consecutive question blocks: block n is the   *)
(* line 'n. <question text>', the four option lines and, optionally, the   *)
(* line 'Answer: x'.                                                       *)
(***************************************************************************)
QuestionTexts ==
    {"What is X?", "Why?", "Which is the capital of India?", "Which is the correct answer?"}
BlockAnswers == {"", "a", "b"}
Numeral(n) == <<"1", "2", "3", "4", "5", "6", "7", "8", "9">>[n]

blockText(n, block) ==
    Numeral(n) \o ". " \o block.question \o "\na) A\nb) B\nc) C\nd) D"
        \o (IF block.answer = "" THEN "" ELSE "\nAnswer: " \o block.answer)

appendBlock(block) ==
    /\ Len(blocks) < MaxBlocks
    /\ blocks' = Append(blocks, block)
    /\ text' = (IF text = "" THEN "" ELSE text \o "\n") \o blockText(Len(blocks) + 1, block)
    /\ ret' = [op |-> "appendBlock"]
    /\ UNCHANGED <<adminVars, mirrorVars, readVars, textLines, pdfQuestions, apiKey, isProcessing, pending, definition>>

InitParse ==
    /\ firebaseLoaded = FALSE
    /\ mockTests = <<>> /\ questions = <<>> /\ accessKeys = <<>>
    /\ nextId = 1
    /\ net = <<>>
    /\ ret = [op |-> "load"]
    /\ pc = "done"
    /\ fbKeys = <<>> /\ fbTests = <<>> /\ fbQuestions = <<>>
    /\ fbResults = <<>> /\ fbNotifications = <<>> /\ now = 0
    /\ text = "" /\ blocks = <<>> /\ textLines = <<>> /\ pdfQuestions = <<>>
    /\ apiKey = "" /\ isProcessing = FALSE /\ pending = <<>> /\ definition = 2

NextParse ==
    \/ \E question \in QuestionTexts, answer \in BlockAnswers :
          appendBlock([question |-> question, answer |-> answer])
    \/ parseQuestions
    \/ \E testName \in TestNames : toJSON(testName, "General")

SpecParse == InitParse /\ [][NextParse]_vars

(***************************************************************************)
(* The text of a PDF written line by line.  A line is its leading number   *)
(* (0 for a line without one) and its body; the numbered line is written   *)
(* '<number>. <body>'.  Each strategy of the extractor is also called on   *)
(* its own.                                                                *)
(***************************************************************************)
Line(number, body) == [number |-> number, body |-> body]
Lines ==
    {Line(1, "Which year was it?"), Line(2, "Who led the event?"),
     Line(1947, "the event took place"), Line(0, "in 1947 the event took place"),
     Line(0, "a) A"), Line(0, "Answer: b"), Line(0, "Q1. Which one is it?")}

lineText(line) ==
    IF line.number = 0 THEN line.body ELSE ToString(line.number) \o ". " \o line.body

appendLine(line) ==
    /\ Len(textLines) < MaxLines
    /\ textLines' = Append(textLines, line)
    /\ text' = (IF textLines = <<>> THEN "" ELSE text \o "\n") \o lineText(line)
    /\ ret' = [op |-> "appendLine"]
    /\ UNCHANGED <<adminVars, mirrorVars, readVars, blocks, pdfQuestions, apiKey, isProcessing, pending, definition>>

ExtractLineByLine ==
    /\ ret' = [op |-> "extractLineByLine", val |-> extractLineByLine(text)]
    /\ UNCHANGED <<adminVars, mirrorVars, readVars, extractorVars>>

\* _parseQuestionContent called with the text as its content span
ParseQuestionContent ==
    /\ ret' = [op |-> "_parseQuestionContent", draft |-> draftQuestion(1, text),
               val |-> parseQuestionContent(1, text)]
    /\ UNCHANGED <<adminVars, mirrorVars, readVars, extractorVars>>

InitScan == InitParse

\* the extractor is handed a text when the text has been written
NextScan ==
    \/ \E line \in Lines : appendLine(line)
    \/ ret.op \in {"load", "appendLine"} /\ ExtractLineByLine
    \/ ret.op \in {"load", "appendLine"} /\ parseQuestions
    \/ ret.op \in {"load", "appendLine"} /\ ParseQuestionContent

SpecScan == InitScan /\ [][NextScan]_vars

(***************************************************************************)
(* One content span written line by line: a question line, option lines    *)
(* with each closing mark, a sentence that starts with the word 'A', and   *)
(* two answer lines.  The span is handed to _parseQuestionContent and to   *)
(* the line scan.                                                          *)
(***************************************************************************)
SpanLines ==
    {Line(1, "Which year was it?"), Line(0, "Which year was it?"),
     Line(0, "a) A"), Line(0, "(B) B"), Line(0, "c: C"), Line(0, "A fine day"),
     Line(0, "Answer: b"), Line(0, "Ans: c")}

NextSpan ==
    \/ \E line \in SpanLines : appendLine(line)
    \/ ret.op \in {"load", "appendLine"} /\ ExtractLineByLine
    \/ ret.op \in {"load", "appendLine"} /\ ParseQuestionContent

SpecSpan == InitScan /\ [][NextSpan]_vars

(***************************************************************************)
(* JSON.parse on the texts of the model: arrays, objects, strings without  *)
(* escapes, unsigned integers and null.  A value carries its type in t;    *)
(* a parse gives [ok, val, end], end being the position after the value.   *)
(***************************************************************************)
Quote == "\""
JsonNull == [t |-> "null"]
JsonUndefined == [t |-> "undefined"]
JsonNum(n) == [t |-> "num", n |-> n]
JsonBool(b) == [t |-> "bool", b |-> b]
JsonStr(str) == [t |-> "str", s |-> str]
JsonArr(items) == [t |-> "arr", items |-> items]
JsonObj(keys, vals) == [t |-> "obj", keys |-> keys, vals |-> vals]

jsonString(s, p) ==
    LET close == indexOf(s, Quote, p + 1)
    IN  IF Char(s, p) = Quote /\ close <= Len(s)
        THEN [ok |-> TRUE, val |-> SubSeq(s, p + 1, close - 1), end |-> close + 1]
        ELSE NoMatch

RECURSIVE jsonValue(_, _)
RECURSIVE jsonItems(_, _, _)
RECURSIVE jsonMembers(_, _, _, _)
jsonValue(s, p0) ==
    LET string(str) ==
            IF str.ok THEN [ok |-> TRUE, val |-> JsonStr(str.val), end |-> str.end]
            ELSE NoMatch
        number(p, end) ==
            [ok |-> TRUE, val |-> JsonNum(parseInt(SubSeq(s, p, end - 1))), end |-> end]
        value(p, c) ==
            IF c = "[" THEN jsonItems(s, Skip(s, p + 1, Space), <<>>)
            ELSE IF c = "{" THEN jsonMembers(s, Skip(s, p + 1, Space), <<>>, <<>>)
            ELSE IF c = Quote THEN string(jsonString(s, p))
            ELSE IF c \in Digits THEN number(p, Skip(s, p, Digits))
            ELSE IF p + 3 <= Len(s) /\ SubSeq(s, p, p + 3) = "null"
            THEN [ok |-> TRUE, val |-> JsonNull, end |-> p + 4]
            ELSE IF p + 3 <= Len(s) /\ SubSeq(s, p, p + 3) = "true"
            THEN [ok |-> TRUE, val |-> JsonBool(TRUE), end |-> p + 4]
            ELSE IF p + 4 <= Len(s) /\ SubSeq(s, p, p + 4) = "false"
            THEN [ok |-> TRUE, val |-> JsonBool(FALSE), end |-> p + 5]
            ELSE NoMatch
        at(p) == value(p, Char(s, p))
    IN  at(Skip(s, p0, Space))

\* p is after '[' or after a ','; items holds the elements read so far
jsonItems(s, p, items) ==
    LET after(v, q) ==
            IF Char(s, q) = ","
            THEN jsonItems(s, Skip(s, q + 1, Space), Append(items, v.val))
            ELSE IF Char(s, q) = "]"
            THEN [ok |-> TRUE, val |-> JsonArr(Append(items, v.val)), end |-> q + 1]
            ELSE NoMatch
        item(v) == IF ~v.ok THEN NoMatch ELSE after(v, Skip(s, v.end, Space))
    IN  IF Char(s, p) = "]" /\ items = <<>>
        THEN [ok |-> TRUE, val |-> JsonArr(<<>>), end |-> p + 1]
        ELSE item(jsonValue(s, p))

\* p is after '{' or after a ','; keys and vals hold the members read so far
jsonMembers(s, p, keys, vals) ==
    LET after(k, v, q) ==
            IF Char(s, q) = ","
            THEN jsonMembers(s, Skip(s, q + 1, Space), Append(keys, k.val),
                             Append(vals, v.val))
            ELSE IF Char(s, q) = "}"
            THEN [ok |-> TRUE, val |-> JsonObj(Append(keys, k.val), Append(vals, v.val)),
                  end |-> q + 1]
            ELSE NoMatch
        member(k, v) == IF ~v.ok THEN NoMatch ELSE after(k, v, Skip(s, v.end, Space))
        colon(k, c) ==
            IF Char(s, c) # ":" THEN NoMatch ELSE member(k, jsonValue(s, c + 1))
        key(k) == IF ~k.ok THEN NoMatch ELSE colon(k, Skip(s, k.end, Space))
    IN  IF Char(s, p) = "}" /\ keys = <<>>
        THEN [ok |-> TRUE, val |-> JsonObj(<<>>, <<>>), end |-> p + 1]
        ELSE key(jsonString(s, p))

\* JSON.parse(s): [ok, val]; ok is FALSE where JSON.parse throws a SyntaxError
JSON_parse(s) ==
    LET whole(v) ==
            IF v.ok /\ Skip(s, v.end, Space) > Len(s) THEN [ok |-> TRUE, val |-> v.val]
            ELSE NoMatch
    IN  whole(jsonValue(s, 1))

Max(S) == CHOOSE x \in S : \A y \in S : x >= y

\* value.key: the last member of that name, undefined without one
prop(value, key) ==
    LET found == IF value.t = "obj"
                 THEN {i \in 1..Len(value.keys) : value.keys[i] = key} ELSE {}
    IN  IF found = {} THEN JsonUndefined ELSE value.vals[Max(found)]

\* the value as a condition (the left operand of || and &&, the operand of !)
truthy(value) ==
    CASE value.t \in {"undefined", "null"} -> FALSE
      [] value.t = "num" -> value.n # 0
      [] value.t = "str" -> value.s # ""
      [] value.t = "bool" -> value.b
      [] OTHER -> TRUE

(***************************************************************************)
(* AIQuestionExtractor.parseJsonResponse.  The fence marker, three         *)
(* backquotes, is written ~~~.                                             *)
(***************************************************************************)
\* s.lastIndexOf(c), 0 where the source has -1
lastIndexOf(s, c) ==
    LET found == {i \in 1..Len(s) : Char(s, i) = c}
    IN  IF found = {} THEN 0 ELSE Max(found)

\* s.replace(/marker\s*/gi, '')
RECURSIVE removeAll(_, _)
removeAll(s, marker) ==
    LET from(found) ==
            IF found = {} THEN s
            ELSE SubSeq(s, 1, Min(found) - 1)
                     \o removeAll(From(s, Skip(s, Min(found) + Len(marker), Space)),
                                  marker)
    IN  from({p \in 1..Len(s) : StartsWith(s, p, marker)})

\* the text handed to JSON.parse
cleanResponse_raw(content) == content
cleanResponse(content) ==
    LET cut(trimmed, jsonStart, jsonEnd) ==
            IF jsonStart <= Len(trimmed) /\ jsonEnd # 0 /\ jsonEnd > jsonStart
            THEN SubSeq(trimmed, jsonStart, jsonEnd) ELSE trimmed
        cleaned(trimmed) ==
            cut(trimmed, indexOf(trimmed, "[", 1), lastIndexOf(trimmed, "]"))
    IN  trim(removeAll(removeAll(cleaned(trim(content)), "~~~json"), "~~~"))

\* [throws |-> FALSE, val |-> the array] or [throws |-> TRUE, error |-> message]
parseJsonResponse(content) ==
    LET failed == [throws |-> TRUE, error |-> "Failed to parse AI response as JSON"]
        questionsOf(value, inner) ==
            IF value.t = "null" THEN failed
            ELSE IF truthy(inner) /\ inner.t = "arr"
            THEN [throws |-> FALSE, val |-> inner.items]
            ELSE IF value.t = "arr" THEN [throws |-> FALSE, val |-> value.items]
            ELSE failed
        result(json) ==
            IF ~json.ok THEN failed
            ELSE questionsOf(json.val, prop(json.val, "questions"))
    IN  result(JSON_parse(cleanResponse(content)))

(***************************************************************************)
(* AIQuestionExtractor.  A call that reaches fetch waits in pending until  *)
(* the endpoint answers; a response is [kind, body, content]: fetch        *)
(* rejects, or answers with a non-success status, or answers ok; body says *)
(* what response.json() gives and content is the reply's text.             *)
(***************************************************************************)
hasApiKey == apiKey # "" /\ Len(apiKey) > 20

setApiKey(key) ==
    /\ apiKey' = key
    /\ ret' = [op |-> "setApiKey", key |-> key]
    /\ UNCHANGED <<adminVars, mirrorVars, readVars, text, blocks, textLines,
                   pdfQuestions, isProcessing, pending, definition>>

HasApiKey ==
    /\ ret' = [op |-> "hasApiKey", val |-> hasApiKey]
    /\ UNCHANGED <<adminVars, mirrorVars, readVars, extractorVars>>

orJ(a, b) == IF truthy(a) THEN a ELSE b

RECURSIVE toLowerCase(_)
toLowerCase(s) ==
    IF s = "" THEN "" ELSE toLowerCaseChar(Char(s, 1)) \o toLowerCase(From(s, 2))

\* parseJsonResponse called with a JSON text put between fence markers
wrapped(fence, json) ==
    IF fence = "" THEN json ELSE fence \o "\n" \o json \o "\n~~~"

Key20 == "gsk_5678901234567890"
Key21 == "gsk_56789012345678901"
Credentials == {"", Key20, Key21}

OneQuestion ==
    "[{\"qno\":1,\"question\":\"Q\",\"a\":\"x\",\"b\":\"y\",\"answer\":\"B\"}]"
Arrays ==
    {"[]", OneQuestion,
     "[{\"question\":\"Q [1]\",\"option_a\":\"x\"}, {\"qno\":7}]",
     "[{\"answer\":2}]",
     "[{\"answer\":\"e\"}]",
     "[null]"}
Objects ==
    {"{\"questions\":[{\"question_number\":1,\"correct_option\":\"b\"}],\"has_answer_key\":true}",
     "{\"questions\":[]}",
     "{}"}
Fences == {"", "~~~", "~~~json", "~~~JSON"}
Replies ==
    Arrays \cup Objects
        \cup {wrapped("~~~json", OneQuestion), "", "Sorry, I found no questions.", "null"}

Responses ==
    {[kind |-> "rejects", body |-> "", content |-> ""]}
        \cup {[kind |-> "status", body |-> body, content |-> ""] :
                  body \in {"message", "nomessage", "notjson"}}
        \cup {[kind |-> "ok", body |-> body, content |-> ""] :
                  body \in {"notjson", "nochoices", "emptychoices"}}
        \cup {[kind |-> "ok", body |-> "reply", content |-> content] : content \in Replies}

failure(error) == [success |-> FALSE, error |-> error, questions |-> JsonArr(<<>>)]
threw(error) == [throws |-> TRUE, error |-> error, content |-> ""]

\* from fetch to the check of content: the reply's text, or the error thrown
aiReply(response) ==
    CASE response.kind = "rejects" -> threw("Failed to fetch")
      [] response.kind = "status" ->
            (CASE response.body = "message" -> threw("Invalid API Key")
               [] response.body = "nomessage" -> threw("API Error: 401")
               [] OTHER -> threw("Unexpected token < in JSON"))
      [] OTHER ->
            (CASE response.body = "notjson" -> threw("Unexpected token < in JSON")
               [] response.body = "nochoices" ->
                     threw("Cannot read properties of undefined")
               [] response.body = "emptychoices" -> threw("Empty response from AI")
               [] OTHER -> IF response.content = "" THEN threw("Empty response from AI")
                           ELSE [throws |-> FALSE, error |-> "", content |-> response.content])

\* value.length of a string or an array, undefined otherwise
lengthOf(value) ==
    CASE value.t = "arr" -> JsonNum(Len(value.items))
      [] value.t = "str" -> JsonNum(Len(value.s))
      [] OTHER -> JsonUndefined

\* what extractQuestionsFromText resolves with, by the first definition
extracted_first(response) ==
    LET result(reply, json) ==
            IF reply.throws THEN failure(reply.error)
            ELSE IF ~json.ok THEN failure("Unexpected token in JSON")
            ELSE IF json.val.t = "null" THEN failure("Cannot read properties of null")
            ELSE [success |-> TRUE,
                  questions |-> orJ(prop(json.val, "questions"), JsonArr(<<>>)),
                  total |-> orJ(prop(json.val, "total_extracted"),
                                orJ(lengthOf(prop(json.val, "questions")), JsonNum(0))),
                  hasAnswerKey |-> orJ(prop(json.val, "has_answer_key"),
                                       JsonBool(FALSE))]
    IN  result(aiReply(response), JSON_parse(aiReply(response).content))

\* what extractQuestionsFromText resolves with, by the second definition
extracted_second(response) ==
    LET result(reply, found) ==
            IF reply.throws THEN failure(reply.error)
            ELSE IF found.throws THEN failure(found.error)
            ELSE IF Len(found.val) = 0 THEN failure("No questions found in response")
            ELSE [success |-> TRUE, questions |-> JsonArr(found.val),
                  total |-> JsonNum(Len(found.val))]
    IN  result(aiReply(response), parseJsonResponse(aiReply(response).content))

extracted(response) ==
    IF definition = 1 THEN extracted_first(response) ELSE extracted_second(response)

\* formatForImport throws a TypeError: q is null, or q.answer is truthy and no string
formatThrows(items) ==
    \E i \in 1..Len(items) :
        \/ items[i].t = "null"
        \/ truthy(prop(items[i], "answer")) /\ prop(items[i], "answer").t # "str"

formatQuestion(q, index) ==
    [question_number |-> orJ(prop(q, "qno"), JsonNum(index)),
     question_text_en |-> orJ(prop(q, "question"), JsonStr("")),
     question_text_hi |-> JsonStr(""),
     option_a_en |-> orJ(prop(q, "a"), orJ(prop(q, "option_a"), JsonStr(""))),
     option_a_hi |-> JsonStr(""),
     option_b_en |-> orJ(prop(q, "b"), orJ(prop(q, "option_b"), JsonStr(""))),
     option_b_hi |-> JsonStr(""),
     option_c_en |-> orJ(prop(q, "c"), orJ(prop(q, "option_c"), JsonStr(""))),
     option_c_hi |-> JsonStr(""),
     option_d_en |-> orJ(prop(q, "d"), orJ(prop(q, "option_d"), JsonStr(""))),
     option_d_hi |-> JsonStr(""),
     correct_option |-> JsonStr(toLowerCase(orJ(prop(q, "answer"), JsonStr("a")).s)),
     explanation_en |-> orJ(prop(q, "explanation"), JsonStr("")),
     explanation_hi |-> JsonStr(""),
     difficulty |-> JsonStr("moderate")]

formatForImport(items) == [i \in 1..Len(items) |-> formatQuestion(items[i], i)]

PdfInfo == [pages |-> 1, chars |-> 1]

\* what extractFromPDF resolves with once the text is read and the endpoint answers
extractedFromPDF(response) ==
    LET result(aiResult) ==
            IF definition = 1 THEN aiResult @@ [pdfInfo |-> PdfInfo]
            ELSE IF ~aiResult.success THEN aiResult
            ELSE IF formatThrows(aiResult.questions.items)
            THEN failure("Cannot read properties")
            ELSE [success |-> TRUE,
                  questions |-> formatForImport(aiResult.questions.items),
                  total |-> Len(aiResult.questions.items),
                  pdfInfo |-> PdfInfo]
    IN  result(extracted(response))

\* what generateQuestions resolves with
generated(response) ==
    LET first(json) ==
            IF ~json.ok THEN failure("Unexpected token in JSON")
            ELSE IF json.val.t = "null" THEN failure("Cannot read properties of null")
            ELSE [success |-> TRUE,
                  questions |-> orJ(prop(json.val, "questions"), JsonArr(<<>>)),
                  total |-> orJ(prop(json.val, "total_generated"),
                                orJ(lengthOf(prop(json.val, "questions")), JsonNum(0))),
                  topic |-> prop(json.val, "topic")]
        second(found) ==
            IF found.throws THEN failure(found.error)
            ELSE IF formatThrows(found.val) THEN failure("Cannot read properties")
            ELSE [success |-> TRUE, questions |-> formatForImport(found.val),
                  total |-> Len(found.val), topic |-> "General Knowledge"]
        result(reply) ==
            IF reply.throws THEN failure(reply.error)
            ELSE IF definition = 1 THEN first(JSON_parse(reply.content))
            ELSE second(parseJsonResponse(reply.content))
    IN  result(aiReply(response))

\* what testConnection resolves with
connected(response) ==
    CASE response.kind = "rejects" -> [success |-> FALSE, error |-> "Failed to fetch"]
      [] response.kind = "status" ->
            (CASE response.body = "message" -> [success |-> FALSE, error |-> "Invalid API Key"]
               [] response.body = "nomessage" ->
                     [success |-> FALSE, error |-> "Connection failed"]
               [] OTHER -> [success |-> FALSE, error |-> "Unexpected token < in JSON"])
      [] OTHER -> [success |-> TRUE, message |-> "Groq API connected successfully!"]

\* the promise of a call rejects with the error
rejected(op, error) == [op |-> op, settled |-> "rejected", error |-> error]
\* the promise of a call resolves with the value
resolved(op, val) == [op |-> op, settled |-> "resolved", val |-> val]
\* the call has issued its request and waits for the answer
awaiting(op) == [op |-> op, settled |-> "pending"]

\* the call goes on to fetch
request(op) ==
    /\ pending' = Append(pending, op)
    /\ ret' = awaiting(op)

extractQuestionsFromText ==
    /\ Len(pending) < MaxPending
    /\ IF ~hasApiKey
       THEN /\ ret' = rejected("extractQuestionsFromText", "Groq API key not configured")
            /\ UNCHANGED <<isProcessing, pending>>
       ELSE /\ isProcessing' = TRUE
            /\ request("extractQuestionsFromText")
    /\ UNCHANGED <<adminVars, mirrorVars, readVars, text, blocks, textLines,
                   pdfQuestions, apiKey, definition>>

\* pdf says whether extractTextFromPDF resolves ("ok") or rejects
extractFromPDF(pdf) ==
    /\ Len(pending) < MaxPending
    /\ IF pdf = "rejects"
       THEN /\ ret' = IF definition = 1 THEN rejected("extractFromPDF", "Invalid PDF")
                      ELSE resolved("extractFromPDF", failure("Invalid PDF"))
            /\ UNCHANGED <<isProcessing, pending>>
       ELSE IF ~hasApiKey
       THEN /\ ret' = IF definition = 1
                      THEN rejected("extractFromPDF", "Groq API key not configured")
                      ELSE resolved("extractFromPDF", failure("Groq API key not configured"))
            /\ UNCHANGED <<isProcessing, pending>>
       ELSE /\ isProcessing' = TRUE
            /\ request("extractFromPDF")
    /\ UNCHANGED <<adminVars, mirrorVars, readVars, text, blocks, textLines,
                   pdfQuestions, apiKey, definition>>

generateQuestions ==
    /\ Len(pending) < MaxPending
    /\ IF ~hasApiKey
       THEN /\ ret' = rejected("generateQuestions", "Groq API key not configured")
            /\ UNCHANGED <<isProcessing, pending>>
       ELSE /\ isProcessing' = TRUE
            /\ request("generateQuestions")
    /\ UNCHANGED <<adminVars, mirrorVars, readVars, text, blocks, textLines,
                   pdfQuestions, apiKey, definition>>

testConnection ==
    /\ Len(pending) < MaxPending
    /\ IF ~hasApiKey
       THEN /\ ret' = resolved("testConnection",
                               [success |-> FALSE, error |-> "No API key configured"])
            /\ UNCHANGED pending
       ELSE request("testConnection")
    /\ UNCHANGED <<adminVars, mirrorVars, readVars, text, blocks, textLines,
                   pdfQuestions, apiKey, isProcessing, definition>>

\* the endpoint answers the i-th waiting call, which runs to its end
Respond(i, response) ==
    /\ i \in 1..Len(pending)
    /\ pending' = Splice(pending, i)
    /\ ret' = resolved(pending[i],
                       CASE pending[i] = "extractQuestionsFromText" -> extracted(response)
                         [] pending[i] = "extractFromPDF" -> extractedFromPDF(response)
                         [] pending[i] = "generateQuestions" -> generated(response)
                         [] OTHER -> connected(response))
                  @@ [response |-> response]
    /\ isProcessing' = IF pending[i] = "testConnection" THEN isProcessing ELSE FALSE
    /\ UNCHANGED <<adminVars, mirrorVars, readVars, text, blocks, textLines,
                   pdfQuestions, apiKey, definition>>

ParseJsonResponse(fence, json) ==
    /\ ret.op = "load"
    /\ ret' = [op |-> "parseJsonResponse", fence |-> fence, json |-> json,
               val |-> parseJsonResponse(wrapped(fence, json))]
    /\ UNCHANGED <<adminVars, mirrorVars, readVars, extractorVars>>

InitAI ==
    /\ firebaseLoaded = FALSE
    /\ mockTests = <<>> /\ questions = <<>> /\ accessKeys = <<>>
    /\ nextId = 1
    /\ net = <<>>
    /\ ret = [op |-> "load"]
    /\ pc = "done"
    /\ fbKeys = <<>> /\ fbTests = <<>> /\ fbQuestions = <<>>
    /\ fbResults = <<>> /\ fbNotifications = <<>> /\ now = 0
    /\ text = "" /\ blocks = <<>> /\ textLines = <<>> /\ pdfQuestions = <<>>
    /\ apiKey \in Credentials /\ isProcessing = FALSE /\ pending = <<>>
    /\ definition \in {1, 2}

NextAI ==
    \/ \E key \in Credentials : setApiKey(key)
    \/ HasApiKey
    \/ extractQuestionsFromText
    \/ \E pdf \in {"ok", "rejects"} : extractFromPDF(pdf)
    \/ generateQuestions
    \/ testConnection
    \/ \E i \in 1..Len(pending), response \in Responses : Respond(i, response)

SpecAI == InitAI /\ [][NextAI]_vars

\* parseJsonResponse, a function of its argument alone, on a page just loaded
InitReply == InitAI

NextReply ==
    \E fence \in Fences, json \in Arrays \cup Objects : ParseJsonResponse(fence, json)

SpecReply == InitReply /\ [][NextReply]_vars

(***************************************************************************)
(* Properties of the manager.                                              *)
(***************************************************************************)
TestHeld(id) == \E i \in 1..Len(mockTests) : mockTests[i].id = id
Numbers(qs) == {GetNum(qs[i], "question_number") : i \in 1..Len(qs)}

\* C1: after deleteQuestion succeeds for a question of test T, the N questions
\* of T that remain are numbered 1..N, each number once, and T's
\* total_questions is N.
C1_DeleteRenumbers ==
    (ret.op = "deleteQuestion" /\ ret.val) =>
        LET remaining == getQuestionsByTestId(ret.testId)
        IN  /\ Numbers(remaining) = 1..Len(remaining)
            /\ \A i \in 1..Len(mockTests) :
                  mockTests[i].id = ret.testId => mockTests[i].total_questions = Len(remaining)

C1_Witness ==
    /\ ret.op = "deleteQuestion" /\ ret.val
    /\ TestHeld(ret.testId)
    /\ Len(getQuestionsByTestId(ret.testId)) >= 2

\* C2: every test's total_questions equals the number of question records
\* whose test_id is its id.
C2_TotalIsLiveCount ==
    \A i \in 1..Len(mockTests) :
        mockTests[i].total_questions = Len(getQuestionsByTestId(mockTests[i].id))

\* C3: deleteTest(id) on an existing test returns true, removes that test and
\* every question whose test_id is id, and leaves every other test and every
\* other question as it was.
C3_DeleteTestCascade ==
    (ret.op = "deleteTest" /\ \E i \in 1..Len(ret.before.mockTests) : ret.before.mockTests[i].id = ret.id) =>
        /\ ret.val
        /\ ~TestHeld(ret.id)
        /\ \A i \in 1..Len(questions) : questions[i].test_id # ret.id
        /\ mockTests = SelectSeq(ret.before.mockTests, LAMBDA t : t.id # ret.id)
        /\ questions = SelectSeq(ret.before.questions, LAMBDA q : q.test_id # ret.id)

C3_Witness ==
    /\ ret.op = "deleteTest" /\ ret.val
    /\ \E i \in 1..Len(ret.before.questions) : ret.before.questions[i].test_id = ret.id
    /\ Len(mockTests) >= 1
    /\ Len(questions) >= 1

\* A canonical question record: every content property present, a number of
\* at least 1, an answer a-d, a difficulty tag; only the Hindi properties may
\* be null.
HindiFields ==
    {"question_text_hi", "option_a_hi", "option_b_hi", "option_c_hi", "option_d_hi",
     "explanation_hi"}
IsCanonical(q) ==
    /\ ExportFields \cup {"question_number"} \subseteq DOMAIN q
    /\ q.question_number >= 1
    /\ q.correct_option \in {"a", "b", "c", "d"}
    /\ Truthy(q.difficulty)
    /\ \A f \in ExportFields : q[f] # Undef /\ (q[f] = Null => f \in HindiFields)
AllCanonical(qs) == \A i \in 1..Len(qs) : IsCanonical(qs[i])

RoundTripped == ret.op = "exportThenImport" /\ ret.found

\* C7 as stated: the re-imported test has the same number of questions and,
\* question by question, the same number and the same content values.
C7_RoundTripExact ==
    LET src == getQuestionsByTestId(ret.testId)
        dst == getQuestionsByTestId(ret.val)
    IN  (RoundTripped /\ AllCanonical(src)) =>
            /\ Len(dst) = Len(src)
            /\ \A i \in 1..Len(src) :
                  /\ dst[i].question_number = src[i].question_number
                  /\ \A f \in ExportFields : dst[i][f] = src[i][f]

\* C7 amended: the same, except that a Hindi value that is null in the source
\* record is the empty string in the re-imported record.
C7_RoundTripUpToNull ==
    LET src == getQuestionsByTestId(ret.testId)
        dst == getQuestionsByTestId(ret.val)
    IN  (RoundTripped /\ AllCanonical(src)) =>
            /\ Len(dst) = Len(src)
            /\ \A i \in 1..Len(src) :
                  /\ dst[i].question_number = src[i].question_number
                  /\ \A f \in ExportFields :
                        dst[i][f] = IF src[i][f] = Null THEN "" ELSE src[i][f]

C7_Witness ==
    LET src == getQuestionsByTestId(ret.testId)
    IN  /\ RoundTripped
        /\ AllCanonical(src)
        /\ \E i \in 1..Len(src) : src[i].question_text_hi = Null /\ src[i].question_number # i

\* C8: no two questions of one test carry the same question_number, and
\* every question_number is at least 1 (of the records that carry one: the
\* demo questions of the constructor have none).
C8_NumbersUnique ==
    \A i, j \in 1..Len(questions) :
        ("question_number" \in DOMAIN questions[i] /\ "question_number" \in DOMAIN questions[j]) =>
            /\ questions[i].question_number >= 1
            /\ (i # j /\ questions[i].test_id = questions[j].test_id)
                   => questions[i].question_number # questions[j].question_number

(***************************************************************************)
(* Properties of the access keys.                                          *)
(***************************************************************************)
\* C4: FirebaseSync.validateKey(code) returns true if and only if the read of
\* the key collection succeeds and the collection holds an entry whose key is
\* exactly code and whose is_active is not false; in every other case, a
\* failed read included, it returns false.
C4_ValidateKey ==
    ret.op = "validateKey" =>
        (ret.val <=>
            /\ ret.outcome = "ok"
            /\ \E i \in 1..Len(ret.collection) :
                  /\ ret.collection[i].key = ret.keyCode
                  /\ ("is_active" \in DOMAIN ret.collection[i]
                         => ret.collection[i].is_active # FALSE))

\* a code validates whose record has no is_active property, and the collection
\* holds a deactivated key as well
C4_Witness ==
    /\ ret.op = "validateKey" /\ ret.val
    /\ \E i \in 1..Len(ret.collection) :
          ret.collection[i].key = ret.keyCode /\ "is_active" \notin DOMAIN ret.collection[i]
    /\ \E i \in 1..Len(ret.collection) :
          "is_active" \in DOMAIN ret.collection[i] /\ ~ret.collection[i].is_active

\* C9: no two entries of the access-key collection have the same key code.
C9_KeyCodesUnique ==
    \A i, j \in 1..Len(accessKeys) :
        Get(accessKeys[i], "key") = Get(accessKeys[j], "key") => i = j

C6_ActiveNotifications ==
    (ret.op = "getActiveNotifications" /\ ret.outcome = "ok") =>
        LET stored == ret.stored
            val == ret.val
            Active(n) == /\ "is_active" \in DOMAIN n /\ n.is_active = TRUE
                         /\ ("expires_at" \in DOMAIN n => n.expires_at >= ret.now)
        IN  /\ \A i \in 1..Len(stored) :
                  Active(stored[i]) <=> \E j \in 1..Len(val) : val[j] = stored[i]
            /\ \A j \in 1..Len(val) : \E i \in 1..Len(stored) : val[j] = stored[i]
            /\ \A i, j \in 1..Len(val) : i # j => val[i].id # val[j].id
            /\ \A i, j \in 1..Len(val) : i < j => val[i].created_at >= val[j].created_at

\* two notifications with is_active true, the one without expires_at returned,
\* the other, whose expires_at has passed, left out
C6_Witness ==
    /\ ret.op = "getActiveNotifications" /\ ret.outcome = "ok"
    /\ Len(ret.val) = 1 /\ "expires_at" \notin DOMAIN ret.val[1]
    /\ \E i \in 1..Len(ret.stored) :
          /\ "is_active" \in DOMAIN ret.stored[i] /\ ret.stored[i].is_active
          /\ "expires_at" \in DOMAIN ret.stored[i] /\ ret.stored[i].expires_at < ret.now

(***************************************************************************)
(* Properties of the question extractor.                                   *)
(***************************************************************************)
\* C10: for a text of k >= 1 consecutive well-formed blocks, parseQuestions
\* returns exactly k questions, numbered 1..k in order, and each question
\* whose block has an answer line 'Answer: x' has answer x.
C10_BlocksParsed ==
    (ret.op = "parseQuestions" /\ Len(blocks) >= 1) =>
        /\ Len(ret.val) = Len(blocks)
        /\ \A n \in 1..Len(ret.val) :
              /\ ret.val[n].number = n
              /\ blocks[n].answer # "" => ret.val[n].answer = blocks[n].answer

\* the numbers 1..n lead lines of the text, in this order
Sequential(n) ==
    \E f \in [1..n -> 1..Len(textLines)] :
        /\ \A k \in 1..n : textLines[f[k]].number = k
        /\ \A k \in 1..(n - 1) : f[k] < f[k + 1]

\* C11: every question the line scan returns is numbered n where lines
\* numbered 1, 2, ..., n occur in the text in this order and its text starts
\* with the body of a line numbered n; the numbers of the returned questions
\* are strictly increasing, and no question is numbered 1947.
C11_StrictSequence ==
    ret.op = "extractLineByLine" =>
        /\ \A i \in 1..Len(ret.val) :
              /\ ret.val[i].number \in 1..Len(textLines)
              /\ Sequential(ret.val[i].number)
              /\ \E j \in 1..Len(textLines) :
                    /\ textLines[j].number = ret.val[i].number
                    /\ StartsWith(ret.val[i].question, 1, textLines[j].body)
        /\ \A i \in 1..(Len(ret.val) - 1) : ret.val[i].number < ret.val[i + 1].number

\* the scan returned two questions from a text whose middle line leads with 1947
C11_Witness ==
    /\ ret.op = "extractLineByLine"
    /\ Len(textLines) = 3 /\ textLines[2].number = 1947
    /\ Len(ret.val) = 2

\* C12: parseJsonResponse gives for a valid JSON array put between fence
\* markers (bare, json or JSON) the array it gives for the same text without
\* the markers, and does not throw.
C12_FencedSameAsBare ==
    (ret.op = "parseJsonResponse" /\ ret.fence # "" /\ ret.json \in Arrays) =>
        /\ ~ret.val.throws
        /\ ret.val = parseJsonResponse(ret.json)

\* a fenced reply labelled json gave the one question of the array inside
C12_Witness ==
    /\ ret.op = "parseJsonResponse"
    /\ ret.fence = "~~~json" /\ ret.json = OneQuestion
    /\ ~ret.val.throws /\ Len(ret.val.val) = 1
    /\ prop(ret.val.val[1], "answer") = JsonStr("B")

\* the reply does not parse as an array or an object with a questions array,
\* or the array parsed holds no question
noQuestions(content) ==
    LET none(found) == found.throws \/ Len(found.val) = 0
    IN  none(parseJsonResponse(content))

\* C13: extractQuestionsFromText never resolves with success and no question,
\* and a reply that does not parse as the expected JSON or holds no question
\* makes it resolve with success false, an error message and no questions.
C13_FailsWithoutQuestions ==
    (ret.op = "extractQuestionsFromText" /\ ret.settled = "resolved") =>
        /\ ret.val.success =>
              (ret.val.questions.t = "arr" /\ Len(ret.val.questions.items) > 0)
        /\ (ret.response.body = "reply" /\ noQuestions(ret.response.content)) =>
              /\ ~ret.val.success
              /\ ret.val.error # ""
              /\ ret.val.questions = JsonArr(<<>>)

\* the call ended without a usable reply: it issued no request (credential
\* refused, PDF unreadable), fetch rejected, the status was no success, or the
\* reply is empty or no JSON text
callFailed ==
    \/ "response" \notin DOMAIN ret
    \/ ret.response.body # "reply"
    \/ ret.response.content = ""
    \/ ~JSON_parse(cleanResponse(ret.response.content)).ok

\* C14: a call of extractQuestionsFromText or extractFromPDF that has ended has
\* resolved, never rejected; when it failed, the value it resolved with has
\* success false, an error message and no questions.
C14_FailureIsResolved ==
    (ret.op \in {"extractQuestionsFromText", "extractFromPDF"} /\ ret.settled # "pending") =>
        /\ ret.settled = "resolved"
        /\ callFailed =>
              /\ ~ret.val.success
              /\ ret.val.error # ""
              /\ ret.val.questions = JsonArr(<<>>)

\* C17: hasApiKey answers true exactly when the stored key is present and has
\* at least 20 characters, and a call of extractQuestionsFromText,
\* generateQuestions or testConnection waits for the endpoint only when the
\* stored key is present and has at least 20 characters.
C17_KeyOfTwentyAccepted ==
    /\ ret.op = "hasApiKey" => (ret.val <=> (apiKey # "" /\ Len(apiKey) >= 20))
    /\ (ret.op \in {"extractQuestionsFromText", "generateQuestions", "testConnection"}
            /\ ret.settled = "pending") =>
          (apiKey # "" /\ Len(apiKey) >= 20)

\* C15: a FirebaseSync call whose request throws or is answered with a
\* non-success status returns its safe default: a read returns the empty
\* list, a write or a delete returns false.
C15_SafeDefaults ==
    ("outcome" \in DOMAIN ret /\ ret.outcome # "ok") =>
        /\ ret.op \in {"getAllKeys", "getAllTests"} => ret.val = <<>>
        /\ ret.op \in {"saveKey", "deleteKey", "saveTest", "deleteTest"} => ret.val = FALSE

\* C16: with the mirror loaded, when deleteTest(id) has deleted a test and
\* every request issued so far has completed, the manager holds neither the
\* test nor a question of it, and neither does the backend.
C16_DeletedInBothStores ==
    (ret.op = "deleteTest" /\ ret.val /\ firebaseLoaded /\ pc = "done" /\ net = <<>>) =>
        /\ ~TestHeld(ret.id)
        /\ \A i \in 1..Len(questions) : questions[i].test_id # ret.id
        /\ \A i \in 1..Len(fbTests) : fbTests[i].id # ret.id
        /\ \A i \in 1..Len(fbQuestions) : fbQuestions[i].id # ret.id

CorrectOptions == {"a", "b", "c", "d"}

\* C18: every question record the manager holds has correct_option a, b, c or d.
C18_CorrectOptionIsLetter ==
    \A i \in 1..Len(questions) : questions[i].correct_option \in CorrectOptions

\* the results of the numeric-prefix split, the Q-prefix split and the line
\* scan on the text, in the order parseQuestions tries them
StrategyResults ==
    <<extractWithNumberPattern(text), extractWithQPattern(text), extractLineByLine(text)>>

\* C19: parseQuestions returns the result of the first of the three strategies
\* that finds a question and runs no strategy after it; it returns no question
\* only when it ran all three and none found one.
C19_FirstStrategyWins ==
    ret.op = "parseQuestions" =>
        /\ ret.val = StrategyResults[ret.ran]
        /\ \A k \in 1..(ret.ran - 1) : Len(StrategyResults[k]) = 0
        /\ ret.ran < 3 => Len(ret.val) > 0
        /\ Len(ret.val) = 0 => \A k \in 1..3 : Len(StrategyResults[k]) = 0

\* the Q-prefix split won: the numeric-prefix split found nothing, and the
\* line scan, which was not run, would have found nothing either
C19_Witness ==
    /\ ret.op = "parseQuestions"
    /\ ret.ran = 2 /\ Len(ret.val) = 1
    /\ Len(StrategyResults[1]) = 0 /\ Len(StrategyResults[3]) = 0

\* the question has a text and one of its options a-d is populated
Populated(q) == q.question # "" /\ \E letter \in {"a", "b", "c", "d"} : q.options[letter] # ""

\* C20: _parseQuestionContent returns a question exactly when the span gives
\* a question text and an option a-d, and every question parseQuestions
\* returns has a question text and an option a-d.
C20_DraftHasTextAndOption ==
    /\ ret.op = "_parseQuestionContent" => (Len(ret.val) = 1 <=> Populated(ret.draft))
    /\ ret.op = "parseQuestions" => \A i \in 1..Len(ret.val) : Populated(ret.val[i])

\* the draft of _parseQuestionContent after the first k lines of the span
draftAfter(k) ==
    parseLines([q |-> emptyQuestion(1, ""), inQuestion |-> TRUE], splitLines(text, 1), k).q

\* the state of the line scan after the first k lines of the text
scanAfter(k) ==
    scanLines([questions |-> <<>>, qNumber |-> 0, currentQ |-> <<>>], splitLines(text, 1), k)

\* C21: once a question's answer is set, no later line of the same span
\* changes it, in _parseQuestionContent and in the line scan.
C21_FirstAnswerKept ==
    /\ ret.op = "_parseQuestionContent" =>
          \A k \in 1..Len(textLines) :
              draftAfter(k - 1).answer # "" => draftAfter(k).answer = draftAfter(k - 1).answer
    /\ ret.op = "extractLineByLine" =>
          \A k \in 1..Len(textLines) :
              (/\ Len(scanAfter(k - 1).currentQ) = 1
               /\ scanAfter(k - 1).currentQ[1].answer # ""
               /\ scanAfter(k).qNumber = scanAfter(k - 1).qNumber) =>
                  scanAfter(k).currentQ[1].answer = scanAfter(k - 1).currentQ[1].answer

\* an optional opening bracket, one letter A-D, a closing bracket, period or
\* colon, then option text
OptionLine(line) ==
    LET p0 == IF Char(line, 1) \in {"(", "["} THEN 2 ELSE 1
    IN  /\ Char(line, p0) \in OptionLetters
        /\ Char(line, p0 + 1) \in {")", "]", ".", ":"}
        /\ Skip(line, p0 + 2, Space) <= Len(line)

\* the letter and the text of an option line
OptionOf(line) ==
    LET p0 == IF Char(line, 1) \in {"(", "["} THEN 2 ELSE 1
    IN  [letter |-> toLowerCaseChar(Char(line, p0)),
         text |-> From(line, Skip(line, p0 + 2, Space))]

\* C22: a line of the span is taken as an option exactly when it is an option
\* line, and the last line of the span, when it is one, sets options[letter].
C22_OptionLines ==
    ret.op = "_parseQuestionContent" =>
        /\ (\E letter \in {"a", "b", "c", "d"} : ret.draft.options[letter] # "") <=>
               (\E i \in 1..Len(textLines) : OptionLine(lineText(textLines[i])))
        /\ \A n \in {Len(textLines)} :
               (n > 0 /\ OptionLine(lineText(textLines[n]))) =>
                   ret.draft.options[OptionOf(lineText(textLines[n])).letter]
                       = OptionOf(lineText(textLines[n])).text

\* C23: toJSON numbers the records 1..n in the order of the drafts, whatever
\* number was extracted for each draft.
C23_NumbersReassigned ==
    ret.op = "toJSON" =>
        \A k \in 1..Len(ret.val.questions) : ret.val.questions[k].question_number = k

\* C24: every question record the manager holds belongs to a test it holds.
C24_NoOrphanQuestions ==
    \A i \in 1..Len(questions) : TestHeld(questions[i].test_id)

\* the verdict of FirebaseSync.validateKey on a collection
keyValue_verdict(collection, keyCode) ==
    \E i \in 1..Len(collection) :
        Get(collection[i], "key") = keyCode /\ isActive(collection[i])

\* the verdict of validateKeyFromDB on a collection
relational_verdict(collection, keyCode) ==
    ~single(matchingRows(collection, keyCode)).error

\* C25: on the same collection and key string, when the backend answers,
\* validateKeyFromDB and FirebaseSync.validateKey return the same verdict.
C25_SameVerdict ==
    /\ (ret.op = "validateKeyFromDB" /\ ret.outcome = "ok") =>
           ret.val = keyValue_verdict(ret.collection, ret.keyCode)
    /\ (ret.op = "validateKey" /\ ret.outcome = "ok") =>
           ret.val = relational_verdict(ret.collection, ret.keyCode)

\* the tests made by createTest in this session: generateId gives them the
\* ids 1..MaxIds
CreatedTestIds == {id \in HeldTestIds : id \in 1..MaxIds}

\* C26: a test made by createTest stays held, and each of its questions stays
\* held, in every step that is not deleteTest for that test, whatever
\* initFirebaseSync does in between.
C26_CreatedTestStays ==
    [][\A id \in CreatedTestIds :
          \/ ret'.op = "deleteTest" /\ ret'.id = id /\ ret' # ret
          \/ /\ \E i \in 1..Len(mockTests') : mockTests'[i].id = id
             /\ \A i \in 1..Len(questions) :
                   questions[i].test_id = id =>
                       \E j \in 1..Len(questions') : questions'[j].id = questions[i].id]_vars

\* the question records the backend holds for a test, and those the manager holds
RemoteQuestionSet(testId) ==
    UNION {{fbQuestions[n].children[i].q : i \in 1..Len(fbQuestions[n].children)} :
              n \in {k \in 1..Len(fbQuestions) : fbQuestions[k].id = testId}}
LocalQuestionSet(testId) ==
    {questions[i] : i \in {k \in 1..Len(questions) : questions[k].test_id = testId}}

\* the test whose questions the last admin operation saved
SavedTestIds ==
    IF ret.op \in {"addQuestionsToTest", "addSingleQuestion"} THEN {ret.testId}
    ELSE IF ret.op = "deleteQuestion" /\ ret.val THEN {ret.testId}
    ELSE IF ret.op = "updateQuestion"
    THEN {questions[i].test_id : i \in {k \in 1..Len(questions) : questions[k].id = ret.id}}
    ELSE {}

\* C27: when every request of the question operations has completed, the
\* backend holds for the test exactly the questions the manager holds for it.
C27_RemoteEqualsLocal ==
    (pc = "done" /\ net = <<>>) =>
        \A testId \in SavedTestIds : RemoteQuestionSet(testId) = LocalQuestionSet(testId)

\* the calls whose request sets isProcessing
ProcessingCalls == {"extractQuestionsFromText", "extractFromPDF", "generateQuestions"}

\* C28: isProcessing is true exactly while a request of
\* extractQuestionsFromText or generateQuestions is in flight.
C28_ProcessingWhileInFlight ==
    isProcessing <=> \E i \in 1..Len(pending) : pending[i] \in ProcessingCalls

\* the questions of the test, other than the deleted one, that carry a number
Numbered(q, testId, deletedId) ==
    q.test_id = testId /\ q.id # deletedId /\ "question_number" \in DOMAIN q

\* C29: deleteQuestion keeps the relative order of the remaining questions
\* of the test: the one with the smaller number before has the smaller after.
C29_OrderKept ==
    [][(ret'.op = "deleteQuestion" /\ ret'.val) =>
          \A i, j \in 1..Len(questions) :
              (/\ Numbered(questions[i], ret'.testId, ret'.id)
               /\ Numbered(questions[j], ret'.testId, ret'.id)
               /\ questions[i].question_number < questions[j].question_number) =>
                  \A k, l \in 1..Len(questions') :
                      (questions'[k].id = questions[i].id /\ questions'[l].id = questions[j].id) =>
                          questions'[k].question_number < questions'[l].question_number]_vars

\* how many times a record occurs in a list
Occurrences(list, q) == Cardinality({k \in 1..Len(list) : list[k] = q})

\* C30: after saveQuestions(testId, qs) succeeds, getQuestionsByTestId(testId)
\* returns exactly the records of qs, each as many times as qs holds it.
C30_SavedThenRead ==
    /\ (ret.op = "saveQuestions" /\ ret.val) =>
          \A got \in {questionsAt(fbQuestions, ret.testId)} :
              /\ Len(got) = Len(ret.questions)
              /\ \A i \in 1..Len(ret.questions) :
                    Occurrences(got, ret.questions[i])
                        = Occurrences(ret.questions, ret.questions[i])
    /\ (ret.op = "getQuestionsByTestId" /\ ret.outcome = "ok") =>
          ret.val = questionsAt(fbQuestions, ret.testId)

====
